---- MODULE Spec2Model ----
(***************************************************************************)
(* shma-infrastructure: the two format engines of the repository.          *)
(*                                                                         *)
(*   src/yaml/__init__.py        the reduced YAML parser                   *)
(*   src/jsonschema/__init__.py  the reduced JSON Schema validator         *)
(*                                                                         *)
(* Text is modelled as a sequence of one-character strings, so that the    *)
(* code's slicing, stripping and scanning are computed and not assumed.    *)
(* Python values are modelled by records of one uniform shape (PyValue).   *)
(***************************************************************************)
EXTENDS Integers, Sequences, FiniteSets, TLC

VARIABLES
    call,       \* the pure function under check and its arguments
    result,     \* what that call returned or raised ("pending" before it ran)
    text,       \* safe_load_all / safe_load: the input text
    documents,  \* safe_load_all: _split_documents(text)
    docIndex,   \* safe_load_all: the document the generator is at
    yielded,    \* safe_load_all: the values yielded so far
    stack,      \* the call stack of _parse_structure / _parse_inline_mapping
    raised,     \* the exception that escaped ("none" while there is none)
    pc          \* where the parser run is

vars == <<call, result, text, documents, docIndex, yielded, stack, raised, pc>>

(***************************************************************************)
(* Characters and strings.                                                 *)
(***************************************************************************)
UpperLetters == <<"A","B","C","D","E","F","G","H","I","J","K","L","M",
                  "N","O","P","Q","R","S","T","U","V","W","X","Y","Z">>
LowerLetters == <<"a","b","c","d","e","f","g","h","i","j","k","l","m",
                  "n","o","p","q","r","s","t","u","v","w","x","y","z">>
Digits == <<"0","1","2","3","4","5","6","7","8","9">>

Range(f) == {f[i] : i \in DOMAIN f}

IndexOf(f, c) == CHOOSE i \in DOMAIN f : f[i] = c

\* str.lower() on one character
LowerChar(c) == IF c \in Range(UpperLetters) THEN LowerLetters[IndexOf(UpperLetters, c)] ELSE c

\* str.lower()
Lower(s) == [i \in DOMAIN s |-> LowerChar(s[i])]

IsDigit(c) == c \in Range(Digits)

DigitVal(c) == IndexOf(Digits, c) - 1

\* the regular expression class \w
IsWordChar(c) == c \in Range(UpperLetters) \cup Range(LowerLetters) \cup Range(Digits) \cup {"_"}

\* what str.strip() / str.rstrip() / str.lstrip() remove
Whitespace == {" ", "\t"}

Slice(s, from, to) == IF from > to THEN <<>> ELSE SubSeq(s, from, to)

RECURSIVE LStrip(_)
LStrip(s) == IF s # <<>> /\ Head(s) \in Whitespace THEN LStrip(Tail(s)) ELSE s

RECURSIVE RStrip(_)
RStrip(s) == IF s # <<>> /\ s[Len(s)] \in Whitespace THEN RStrip(Slice(s, 1, Len(s) - 1)) ELSE s

Strip(s) == RStrip(LStrip(s))

StartsWith(s, p) == Len(s) >= Len(p) /\ Slice(s, 1, Len(p)) = p

EndsWith(s, p) == Len(s) >= Len(p) /\ Slice(s, Len(s) - Len(p) + 1, Len(s)) = p

Contains(s, c) == \E i \in DOMAIN s : s[i] = c

\* the least index of c in s (s contains c)
FirstIndex(s, c) == CHOOSE i \in DOMAIN s : s[i] = c /\ \A j \in 1..(i - 1) : s[j] # c

\* str.split(c, 1) of a string that contains c
SplitOnce(s, c) == <<Slice(s, 1, FirstIndex(s, c) - 1), Slice(s, FirstIndex(s, c) + 1, Len(s))>>

RECURSIVE JoinWith(_, _)
\* sep.join(parts)
JoinWith(parts, sep) ==
    IF parts = <<>> THEN <<>>
    ELSE IF Len(parts) = 1 THEN parts[1]
    ELSE parts[1] \o sep \o JoinWith(Tail(parts), sep)

(***************************************************************************)
(* Python values: None, bool, int, float, str, list, tuple, set, dict.     *)
(* A float is n / 10^e with e least; a dict keeps its keys in insertion    *)
(* order, keys[i] mapping to items[i]; a set holds each element once.      *)
(***************************************************************************)
PyValue(t, n, e, s, keys, items) == [t |-> t, n |-> n, e |-> e, s |-> s, keys |-> keys, items |-> items]

PyNone == PyValue("none", 0, 0, <<>>, <<>>, <<>>)
PyBool(b) == PyValue("bool", IF b THEN 1 ELSE 0, 0, <<>>, <<>>, <<>>)
PyInt(n) == PyValue("int", n, 0, <<>>, <<>>, <<>>)
PyStr(s) == PyValue("str", 0, 0, s, <<>>, <<>>)
PyList(items) == PyValue("list", 0, 0, <<>>, <<>>, items)
PyTuple(items) == PyValue("tuple", 0, 0, <<>>, <<>>, items)
PySet(items) == PyValue("set", 0, 0, <<>>, <<>>, items)
PyDict(keys, items) == PyValue("dict", 0, 0, <<>>, keys, items)

RECURSIVE PyFloat(_, _)
\* the float n / 10^e
PyFloat(n, e) ==
    IF e > 0 /\ n % 10 = 0 THEN PyFloat(n \div 10, e - 1)
    ELSE PyValue("float", n, e, <<>>, <<>>, <<>>)

PyTrue == PyBool(TRUE)
PyFalse == PyBool(FALSE)

\* a returned value / a raised exception
Returned(v) == [err |-> "none", val |-> v]
Raise(kind) == [err |-> kind, val |-> PyNone]
Pending == [err |-> "pending", val |-> PyNone]

(***************************************************************************)
(* Python equality and dict assignment.                                    *)
(***************************************************************************)
IsNumeric(v) == v.t \in {"bool", "int", "float"}

RECURSIVE PyEq(_, _)
\* a == b: True == 1 == 1.0, lists by position, dicts by key
PyEq(a, b) ==
    IF IsNumeric(a) /\ IsNumeric(b) THEN a.n = b.n /\ a.e = b.e
    ELSE IF a.t # b.t THEN FALSE
    ELSE IF a.t \in {"list", "tuple"} THEN
        /\ Len(a.items) = Len(b.items)
        /\ \A i \in DOMAIN a.items : PyEq(a.items[i], b.items[i])
    ELSE IF a.t = "set" THEN
        /\ Len(a.items) = Len(b.items)
        /\ \A i \in DOMAIN a.items : \E j \in DOMAIN b.items : PyEq(a.items[i], b.items[j])
    ELSE IF a.t = "dict" THEN
        /\ Len(a.keys) = Len(b.keys)
        /\ \A i \in DOMAIN a.keys : \E j \in DOMAIN b.keys :
              PyEq(a.keys[i], b.keys[j]) /\ PyEq(a.items[i], b.items[j])
    ELSE a = b

RECURSIVE Hashable(_)
\* hash(v) succeeds
Hashable(v) ==
    IF v.t = "tuple" THEN \A i \in DOMAIN v.items : Hashable(v.items[i])
    ELSE v.t \notin {"list", "dict", "set"}

\* s.add(v), for a hashable v
SetAdd(st, v) ==
    IF \E i \in DOMAIN st.items : PyEq(st.items[i], v) THEN st ELSE PySet(Append(st.items, v))

\* key in d
DictHas(d, k) == \E i \in DOMAIN d.keys : PyEq(d.keys[i], k)

\* d[k], for a key of d
DictGet(d, k) == d.items[CHOOSE i \in DOMAIN d.keys : PyEq(d.keys[i], k)]

\* d[k] = v, for a hashable k: an existing key keeps its place
DictSet(d, k, v) ==
    IF DictHas(d, k)
    THEN PyDict(d.keys, [i \in DOMAIN d.items |-> IF PyEq(d.keys[i], k) THEN v ELSE d.items[i]])
    ELSE PyDict(Append(d.keys, k), Append(d.items, v))

(***************************************************************************)
(* ast.literal_eval, on the literals the parser's inputs here can hold:    *)
(* quoted strings without escapes (adjacent ones concatenate), decimal     *)
(* integers and floats with one optional sign, True / False / None, list,  *)
(* set and dict displays, a tuple without parentheses, and a trailing "#"  *)
(* comment.  Everything else is refused, as Python refuses a name or a     *)
(* syntax error; parentheses, bytes, escapes, exponents and non-decimal    *)
(* integers are outside this grammar and appear in no input below.         *)
(***************************************************************************)
LitFail == [ok |-> FALSE, val |-> PyNone, pos |-> 0]
LitOk(v, p) == [ok |-> TRUE, val |-> v, pos |-> p]

RECURSIVE SkipWs(_, _)
SkipWs(s, i) ==
    IF i <= Len(s) /\ s[i] \in Whitespace THEN SkipWs(s, i + 1)
    ELSE IF i <= Len(s) /\ s[i] = "#" THEN Len(s) + 1
    ELSE i

RECURSIVE RunEnd(_, _, _)
\* the index after the longest run of characters of set cs that starts at i
RunEnd(s, i, cs) == IF i <= Len(s) /\ s[i] \in cs THEN RunEnd(s, i + 1, cs) ELSE i

RECURSIVE DigitsToInt(_)
\* int(ds, 10) of a string of digits
DigitsToInt(ds) ==
    IF ds = <<>> THEN 0
    ELSE 10 * DigitsToInt(Slice(ds, 1, Len(ds) - 1)) + DigitVal(ds[Len(ds)])

RECURSIVE Pow10(_)
Pow10(k) == IF k = 0 THEN 1 ELSE 10 * Pow10(k - 1)

\* float(ip "." fp) of two strings of digits
DecimalToFloat(neg, ip, fp) ==
    PyFloat((IF neg THEN -1 ELSE 1) * (DigitsToInt(ip) * Pow10(Len(fp)) + DigitsToInt(fp)), Len(fp))

\* an unsigned number literal at i
PyLitNumber(s, i) ==
    LET ie == RunEnd(s, i, Range(Digits))
        ip == Slice(s, i, ie - 1)
        dot == ie <= Len(s) /\ s[ie] = "."
        fe == IF dot THEN RunEnd(s, ie + 1, Range(Digits)) ELSE ie
        fp == IF dot THEN Slice(s, ie + 1, fe - 1) ELSE <<>>
    IN  IF ip = <<>> /\ fp = <<>> THEN LitFail
        ELSE IF fe <= Len(s) /\ (IsWordChar(s[fe]) \/ s[fe] = ".") THEN LitFail
        ELSE IF dot THEN LitOk(DecimalToFloat(FALSE, ip, fp), fe)
        ELSE IF Len(ip) > 1 /\ ip[1] = "0" /\ DigitsToInt(ip) # 0 THEN LitFail
        ELSE LitOk(PyInt(DigitsToInt(ip)), fe)

Negated(v) == IF v.t = "int" THEN PyInt(-v.n) ELSE PyFloat(-v.n, v.e)

PyLitNegate(tok) == IF tok.ok THEN LitOk(Negated(tok.val), tok.pos) ELSE LitFail

RECURSIVE PyLitStrings(_, _)
\* one or more adjacent string literals at i
PyLitStrings(s, i) ==
    LET q == s[i]
        triple == i + 2 <= Len(s) /\ s[i + 1] = q /\ s[i + 2] = q
        w == IF triple THEN 3 ELSE 1
        closers == {k \in (i + w)..(Len(s) - w + 1) : \A d \in 0..(w - 1) : s[k + d] = q}
    IN  IF closers = {} THEN LitFail
        ELSE LET k == CHOOSE c \in closers : \A d \in closers : c <= d
                 body == Slice(s, i + w, k - 1)
                 nxt == SkipWs(s, k + w)
             IN  IF Contains(body, "\\") THEN LitFail
                 ELSE IF nxt <= Len(s) /\ s[nxt] \in {"'", "\""}
                 THEN LET more == PyLitStrings(s, nxt)
                      IN  IF more.ok THEN LitOk(PyStr(body \o more.val.s), more.pos) ELSE LitFail
                 ELSE LitOk(PyStr(body), k + w)

\* a name at i: only the three constants are literals
PyLitName(s, i) ==
    LET e == RunEnd(s, i, {c \in Range(s) : IsWordChar(c)})
        name == Slice(s, i, e - 1)
    IN  IF name = <<"T","r","u","e">> THEN LitOk(PyTrue, e)
        ELSE IF name = <<"F","a","l","s","e">> THEN LitOk(PyFalse, e)
        ELSE IF name = <<"N","o","n","e">> THEN LitOk(PyNone, e)
        ELSE LitFail

\* one scalar literal at i: strings, a number with an optional sign, a constant
PyLitToken(s, i) ==
    IF s[i] \in {"'", "\""} THEN PyLitStrings(s, i)
    ELSE IF IsDigit(s[i]) \/ s[i] = "." THEN PyLitNumber(s, i)
    ELSE IF s[i] \in {"-", "+"} THEN
        LET k == SkipWs(s, i + 1)
        IN  IF k <= Len(s) /\ (IsDigit(s[k]) \/ s[k] = ".")
            THEN (IF s[i] = "-" THEN PyLitNegate(PyLitNumber(s, k)) ELSE PyLitNumber(s, k))
            ELSE LitFail
    ELSE IF IsWordChar(s[i]) THEN PyLitName(s, i)
    ELSE LitFail

\* a display that is being read: its kind, what it holds so far, and for a dict
\* the key whose value is awaited
Display(kind, acc, haskey, key) == [kind |-> kind, acc |-> acc, haskey |-> haskey, key |-> key]

Pop(stk) == Slice(stk, 1, Len(stk) - 1)

Top(stk) == stk[Len(stk)]

SetTop(stk, d) == [stk EXCEPT ![Len(stk)] = d]

ListAdd(v, x) == PyValue(v.t, 0, 0, <<>>, <<>>, Append(v.items, x))

RECURSIVE PyLitRun(_, _, _, _, _)
RECURSIVE PyLitAfterToken(_, _, _)

PyLitAfterToken(s, stk, tok) ==
    IF tok.ok THEN PyLitRun(s, tok.pos, stk, TRUE, tok.val) ELSE Raise("Exception")

\* the expression from i on, inside the displays of stk; have: the value v has
\* just been read and a separator, a closer or the end must follow
PyLitRun(s, i, stk, have, v) ==
    LET j == SkipWs(s, i)
        atEnd == j > Len(s)
        c == IF atEnd THEN "" ELSE s[j]
        top == IF stk = <<>> THEN Display("none", PyNone, FALSE, PyNone) ELSE Top(stk)
    IN  IF ~have THEN
            IF atEnd THEN
                IF top.kind = "tuple" /\ Len(stk) = 1 THEN Returned(top.acc) ELSE Raise("Exception")
            ELSE IF c = "[" THEN
                PyLitRun(s, j + 1, Append(stk, Display("list", PyList(<<>>), FALSE, PyNone)), FALSE, PyNone)
            ELSE IF c = "{" THEN
                PyLitRun(s, j + 1, Append(stk, Display("brace", PyDict(<<>>, <<>>), FALSE, PyNone)), FALSE, PyNone)
            ELSE IF c = "]" THEN
                IF top.kind = "list" THEN PyLitRun(s, j + 1, Pop(stk), TRUE, top.acc) ELSE Raise("Exception")
            ELSE IF c = "}" THEN
                IF top.kind \in {"brace", "dict", "set"} /\ ~top.haskey
                THEN PyLitRun(s, j + 1, Pop(stk), TRUE, top.acc)
                ELSE Raise("Exception")
            ELSE PyLitAfterToken(s, stk, PyLitToken(s, j))
        ELSE IF top.kind = "none" THEN
            IF atEnd THEN Returned(v)
            ELSE IF c = "," THEN PyLitRun(s, j + 1, <<Display("tuple", PyTuple(<<v>>), FALSE, PyNone)>>, FALSE, PyNone)
            ELSE Raise("Exception")
        ELSE IF top.kind = "tuple" THEN
            IF atEnd /\ Len(stk) = 1 THEN Returned(ListAdd(top.acc, v))
            ELSE IF c = "," THEN PyLitRun(s, j + 1, SetTop(stk, Display("tuple", ListAdd(top.acc, v), FALSE, PyNone)), FALSE, PyNone)
            ELSE Raise("Exception")
        ELSE IF top.kind = "list" THEN
            IF c = "," THEN PyLitRun(s, j + 1, SetTop(stk, Display("list", ListAdd(top.acc, v), FALSE, PyNone)), FALSE, PyNone)
            ELSE IF c = "]" THEN PyLitRun(s, j + 1, Pop(stk), TRUE, ListAdd(top.acc, v))
            ELSE Raise("Exception")
        ELSE IF top.kind \in {"brace", "set"} THEN
            IF c = ":" /\ top.kind = "brace" /\ Hashable(v)
            THEN PyLitRun(s, j + 1, SetTop(stk, Display("dict", top.acc, TRUE, v)), FALSE, PyNone)
            ELSE IF c = "," /\ Hashable(v)
            THEN PyLitRun(s, j + 1, SetTop(stk, Display("set", SetAdd(PySet(top.acc.items), v), FALSE, PyNone)), FALSE, PyNone)
            ELSE IF c = "}" /\ Hashable(v)
            THEN PyLitRun(s, j + 1, Pop(stk), TRUE, SetAdd(PySet(top.acc.items), v))
            ELSE Raise("Exception")
        ELSE IF top.haskey THEN
            IF c = "," THEN PyLitRun(s, j + 1, SetTop(stk, Display("dict", DictSet(top.acc, top.key, v), FALSE, PyNone)), FALSE, PyNone)
            ELSE IF c = "}" THEN PyLitRun(s, j + 1, Pop(stk), TRUE, DictSet(top.acc, top.key, v))
            ELSE Raise("Exception")
        ELSE IF c = ":" /\ Hashable(v)
            THEN PyLitRun(s, j + 1, SetTop(stk, Display("dict", top.acc, TRUE, v)), FALSE, PyNone)
            ELSE Raise("Exception")

\* ast.literal_eval(s): the value, or any exception
PyLiteralEval(s) == PyLitRun(s, 1, <<>>, FALSE, PyNone)

(***************************************************************************)
(* re.sub(r"\bword\b", repl, s)                                            *)
(***************************************************************************)
\* \b holds between s[p - 1] and s[p]
WordBoundary(s, p) ==
    LET before == p - 1 >= 1 /\ p - 1 <= Len(s) /\ IsWordChar(s[p - 1])
        after == p >= 1 /\ p <= Len(s) /\ IsWordChar(s[p])
    IN  before # after

RECURSIVE ReSubWordFrom(_, _, _, _)
ReSubWordFrom(s, i, word, repl) ==
    IF i > Len(s) THEN <<>>
    ELSE IF /\ i + Len(word) - 1 <= Len(s)
            /\ Slice(s, i, i + Len(word) - 1) = word
            /\ WordBoundary(s, i)
            /\ WordBoundary(s, i + Len(word))
    THEN repl \o ReSubWordFrom(s, i + Len(word), word, repl)
    ELSE <<s[i]>> \o ReSubWordFrom(s, i + 1, word, repl)

ReSubWord(s, word, repl) == ReSubWordFrom(s, 1, word, repl)

\* _literal_eval
_literal_eval(value) ==
    LET a1 == ReSubWord(value, <<"t","r","u","e">>, <<"T","r","u","e">>)
        a2 == ReSubWord(a1, <<"f","a","l","s","e">>, <<"F","a","l","s","e">>)
        a3 == ReSubWord(a2, <<"n","u","l","l">>, <<"N","o","n","e">>)
        adjusted == ReSubWord(a3, <<"~">>, <<"N","o","n","e">>)
        r == PyLiteralEval(adjusted)
    IN  IF r.err = "none" THEN r ELSE Raise("YAMLError")

(***************************************************************************)
(* _parse_scalar and _parse_inline_list                                    *)
(***************************************************************************)
_BOOL_MAP_true == {<<"t","r","u","e">>, <<"y","e","s">>, <<"o","n">>}
_BOOL_MAP_false == {<<"f","a","l","s","e">>, <<"n","o">>, <<"o","f","f">>}
_NULL_VALUES == {<<"n","u","l","l">>, <<"~">>, <<>>}
_BLOCK_INDICATORS == {<<"|">>, <<"|","-">>, <<"|","+">>, <<">">>, <<">","-">>, <<">","+">>}

AllDigits(s) == \A i \in DOMAIN s : IsDigit(s[i])

Unsigned(value) == IF value # <<>> /\ value[1] \in {"-", "+"} THEN Tail(value) ELSE value

\* re.fullmatch(r"[-+]?[0-9]+", value)
MatchesIntPatternUnsigned(value) == value # <<>> /\ AllDigits(value)
MatchesIntPattern(value) == Unsigned(value) # <<>> /\ AllDigits(Unsigned(value))

\* re.fullmatch(r"[-+]?[0-9]*\.[0-9]+", value)
MatchesFloatPattern(value) ==
    LET body == Unsigned(value)
    IN  \E d \in DOMAIN body :
            /\ body[d] = "."
            /\ AllDigits(Slice(body, 1, d - 1))
            /\ d < Len(body)
            /\ AllDigits(Slice(body, d + 1, Len(body)))

\* int(value, 10) of a value that matches the integer pattern
IntOf(value) == (IF value[1] = "-" THEN -1 ELSE 1) * DigitsToInt(Unsigned(value))

\* float(value) of a value that matches the float pattern
FloatOf(value) ==
    LET body == Unsigned(value)
        d == FirstIndex(body, ".")
    IN  DecimalToFloat(value[1] = "-", Slice(body, 1, d - 1), Slice(body, d + 1, Len(body)))

RECURSIVE InlineListElements(_, _, _, _, _, _, _)
\* the loop of _parse_inline_list over inner, from character i
InlineListElements(inner, i, elements, current, depth, in_single, in_double) ==
    IF i > Len(inner)
    THEN IF current # <<>> THEN Append(elements, Strip(current)) ELSE elements
    ELSE LET char == inner[i]
             tq == char = "'" /\ ~in_double
             td == ~tq /\ char = "\"" /\ ~in_single
             up == ~tq /\ ~td /\ char \in {"[", "{"}
             down == ~tq /\ ~td /\ ~up /\ char \in {"]", "}"}
             s1 == IF tq THEN ~in_single ELSE in_single
             d1 == IF td THEN ~in_double ELSE in_double
             depth1 == IF up THEN depth + 1 ELSE IF down THEN depth - 1 ELSE depth
         IN  IF char = "," /\ depth1 = 0 /\ ~s1 /\ ~d1
             THEN InlineListElements(inner, i + 1, Append(elements, Strip(current)), <<>>, depth1, s1, d1)
             ELSE InlineListElements(inner, i + 1, elements, Append(current, char), depth1, s1, d1)

RECURSIVE _parse_scalar(_, _)
RECURSIVE _parse_inline_list(_)
RECURSIVE ParseElements(_, _)

\* [_parse_scalar(element) for element in elements]
ParseElements(elements, acc) ==
    IF elements = <<>> THEN Returned(PyList(acc))
    ELSE LET r == _parse_scalar(Head(elements), FALSE)
         IN  IF r.err # "none" THEN r ELSE ParseElements(Tail(elements), Append(acc, r.val))

_parse_inline_list(value) ==
    LET inner == Strip(Slice(value, 2, Len(value) - 1))
    IN  IF inner = <<>> THEN Returned(PyList(<<>>))
        ELSE ParseElements(InlineListElements(inner, 1, <<>>, <<>>, 0, FALSE, FALSE), <<>>)

_parse_scalar(raw, for_key) ==
    LET value == Strip(raw)
        lowered == Lower(value)
    IN  IF value = <<>> THEN Returned(IF for_key THEN PyStr(<<>>) ELSE PyNone)
        ELSE IF value[1] \in {"\"", "'"} THEN
            LET r == PyLiteralEval(value)
            IN  IF r.err = "none" THEN r ELSE Raise("YAMLError")
        ELSE IF ~for_key /\ lowered \in _BOOL_MAP_true THEN Returned(PyTrue)
        ELSE IF ~for_key /\ lowered \in _BOOL_MAP_false THEN Returned(PyFalse)
        ELSE IF ~for_key /\ lowered \in _NULL_VALUES THEN Returned(PyNone)
        ELSE IF ~for_key /\ MatchesIntPattern(value) THEN Returned(PyInt(IntOf(value)))
        ELSE IF ~for_key /\ MatchesFloatPattern(value) THEN Returned(FloatOf(value))
        ELSE IF StartsWith(value, <<"[">>) /\ EndsWith(value, <<"]">>) THEN
            LET r == _literal_eval(value)
            IN  IF r.err = "none" THEN r ELSE _parse_inline_list(value)
        ELSE IF StartsWith(value, <<"{">>) /\ EndsWith(value, <<"}">>) THEN _literal_eval(value)
        ELSE Returned(PyStr(value))

(***************************************************************************)
(* _Line and _parse_block_scalar.  Line indices are the code's: the first  *)
(* line of a document has index 0 and is lines[1] here.                    *)
(***************************************************************************)
RECURSIVE LeadingSpaces(_)
LeadingSpaces(t) == IF t # <<>> /\ Head(t) = " " THEN 1 + LeadingSpaces(Tail(t)) ELSE 0

\* _Line.indent
LineIndent(t) == LeadingSpaces(t)

\* _Line.stripped
LineStripped(t) == Strip(t)

LineAt(lines, index) == lines[index + 1]

IsBlankOrComment(t) == LineStripped(t) = <<>> \/ StartsWith(LineStripped(t), <<"#">>)

RECURSIVE BlockEnd(_, _, _)
\* the capture loop of _parse_block_scalar: the cursor it stops at
BlockEnd(lines, cursor, base_indent) ==
    IF cursor >= Len(lines) THEN cursor
    ELSE LET line == LineAt(lines, cursor)
         IN  IF LineStripped(line) = <<>> /\ LineIndent(line) <= base_indent THEN cursor
             ELSE IF /\ LineIndent(line) <= base_indent
                     /\ LineStripped(line) # <<>>
                     /\ ~StartsWith(LineStripped(line), <<"#">>)
                  THEN cursor
             ELSE BlockEnd(lines, cursor + 1, base_indent)

\* block_lines, as texts
BlockLines(lines, index, cursor) == Slice(lines, index + 2, cursor)

Min(S) == CHOOSE x \in S : \A y \in S : x <= y

\* min_indent
BlockMinIndent(block_lines, base_indent) ==
    LET relevant == {LineIndent(block_lines[i]) : i \in {k \in DOMAIN block_lines : Strip(block_lines[k]) # <<>>}}
    IN  IF relevant # {} THEN Min(relevant) ELSE base_indent + 1

\* processed
BlockProcessed(block_lines, min_indent) ==
    [i \in DOMAIN block_lines |->
        IF Strip(block_lines[i]) = <<>> THEN <<>>
        ELSE Slice(block_lines[i], min_indent + 1, Len(block_lines[i]))]

RECURSIVE GroupEnd(_, _)
\* the index after the itertools.groupby group that starts at processed[i]
GroupEnd(processed, i) ==
    IF i + 1 <= Len(processed) /\ ((processed[i + 1] = <<>>) = (processed[i] = <<>>))
    THEN GroupEnd(processed, i + 1)
    ELSE i + 1

RECURSIVE FoldedParts(_, _)
\* folded_parts, from the group that starts at processed[i]
FoldedParts(processed, i) ==
    IF i > Len(processed) THEN <<>>
    ELSE IF processed[i] = <<>>
    THEN <<<<>>>> \o FoldedParts(processed, GroupEnd(processed, i))
    ELSE <<JoinWith(Slice(processed, i, GroupEnd(processed, i) - 1), <<" ">>)>>
            \o FoldedParts(processed, GroupEnd(processed, i))

\* value, before chomping
BlockValue(indicator, processed) ==
    IF StartsWith(indicator, <<"|">>) THEN JoinWith(processed, <<"\n">>)
    ELSE JoinWith(FoldedParts(processed, 1), <<"\n">>)

ChompKeepsNewline(indicator, value) == value \o <<"\n">>

\* the three returns that end _parse_block_scalar
Chomp(indicator, value) ==
    IF EndsWith(indicator, <<"-">>) THEN value
    ELSE IF EndsWith(indicator, <<"+">>) THEN value \o <<"\n">>
    ELSE value \o <<"\n">>

\* _parse_block_scalar: [val |-> the string, idx |-> the cursor]
_parse_block_scalar(lines, index, indicator, base_indent) ==
    LET cursor == BlockEnd(lines, index + 1, base_indent)
        block_lines == BlockLines(lines, index, cursor)
    IN  IF block_lines = <<>>
        THEN [val |-> PyStr(IF EndsWith(indicator, <<"-">>) THEN <<>> ELSE <<"\n">>), idx |-> cursor]
        ELSE [val |-> PyStr(Chomp(indicator,
                        BlockValue(indicator,
                            BlockProcessed(block_lines, BlockMinIndent(block_lines, base_indent))))),
              idx |-> cursor]

(***************************************************************************)
(* The states every specification starts the unused parts in.              *)
(***************************************************************************)
NoCall == [fn |-> "none"]

ParserIdle ==
    /\ text = <<>>
    /\ documents = <<>>
    /\ docIndex = 0
    /\ yielded = <<>>
    /\ stack = <<>>
    /\ raised = "none"
    /\ pc = "idle"

parserVars == <<text, documents, docIndex, yielded, stack, raised, pc>>

(***************************************************************************)
(* SpecScalar: _parse_scalar applied to one value text.                    *)
(* The texts are the concatenations of at most MaxPieces pieces, in one of *)
(* the letter cases of CaseStyles.                                         *)
(***************************************************************************)
MaxPieces == 3

ScalarPieces ==
    { <<"t","r","u","e">>, <<"y","e","s">>, <<"o","n">>,
      <<"f","a","l","s","e">>, <<"n","o">>, <<"o","f","f">>,
      <<"n","u","l","l">>, <<"~">>,
      <<"4">>, <<"0">>, <<".">>, <<"-">>, <<"+">>,
      <<"a">>, <<" ">>, <<"[">>, <<"]">> }

CaseStyles == {"lower", "upper", "title"}

UpperChar(c) == IF c \in Range(LowerLetters) THEN UpperLetters[IndexOf(LowerLetters, c)] ELSE c

Styled(s, style) ==
    [i \in DOMAIN s |->
        IF style = "upper" \/ (style = "title" /\ i = 1) THEN UpperChar(s[i]) ELSE s[i]]

RECURSIVE Concat(_)
Concat(parts) == IF parts = <<>> THEN <<>> ELSE Head(parts) \o Concat(Tail(parts))

PieceSeqs == UNION {[1..k -> ScalarPieces] : k \in 0..MaxPieces}

ScalarTexts == {Styled(Concat(ps), st) : ps \in PieceSeqs, st \in CaseStyles}

\* inline flow collections of at most MaxEntries entries
MaxEntries == 2

FlowKeys == { <<"f","o","o">>, <<"b">>, <<"\"","f","o","o","\"">>, <<"1">> }

FlowValues == { <<"1">>, <<"b">>, <<"t","r","u","e">>, <<"'","x","'">> }

\* the text of a flow mapping with the entries ps, pairs of key text and value text
Brace(ps) == <<"{">> \o JoinWith([i \in DOMAIN ps |-> ps[i][1] \o <<":"," ">> \o ps[i][2]], <<","," ">>) \o <<"}">>

\* the text of a flow sequence with the element texts vs
Bracket(vs) == <<"[">> \o JoinWith(vs, <<","," ">>) \o <<"]">>

BraceTexts == {Brace(ps) : ps \in UNION {[1..n -> FlowKeys \X FlowValues] : n \in 0..MaxEntries}}

BracketTexts == {Bracket(vs) : vs \in UNION {[1..n -> FlowValues] : n \in 0..MaxEntries}}

\* the keywords true, false and null as quoted scalars, in both quote styles
QuotedKeywords ==
    { <<q>> \o k \o <<q>> : k \in {<<"t","r","u","e">>, <<"f","a","l","s","e">>, <<"n","u","l","l">>},
                           q \in {"'", "\""} }

\* flow sequences whose elements are quoted keywords or the plain scalar a
KeywordTexts == {Bracket(vs) : vs \in UNION {[1..n -> QuotedKeywords \cup {<<"a">>}] : n \in 1..MaxEntries}}

\* flow collections whose brackets do not match
UnbalancedTexts ==
    { <<"[","a">>, <<"{","a">>, <<"[","a",","," ","[","b","]">>, <<"[","a",","," ","{","b","]">>,
      <<"[","[","a","]">>, <<"[","a","]","]">>, <<"{","a",":"," ","[","b","}">>, <<"[","a","}">>,
      <<"{","a",":"," ","1","]">> }

InitScalar ==
    /\ call \in {[fn |-> "_parse_scalar", raw |-> r, for_key |-> FALSE] :
                    r \in ScalarTexts \cup BraceTexts \cup BracketTexts \cup KeywordTexts \cup UnbalancedTexts}
    /\ result = Pending
    /\ ParserIdle

CallParseScalar ==
    /\ call.fn = "_parse_scalar"
    /\ result.err = "pending"
    /\ result' = _parse_scalar(call.raw, call.for_key)
    /\ UNCHANGED <<call, parserVars>>

NextScalar == CallParseScalar

SpecScalar == InitScalar /\ [][NextScalar]_vars

(***************************************************************************)
(* C4: the scalar coercion table.                                          *)
(***************************************************************************)
TableTrue == {<<"t","r","u","e">>, <<"y","e","s">>, <<"o","n">>}
TableFalse == {<<"f","a","l","s","e">>, <<"n","o">>, <<"o","f","f">>}
TableNull == {<<"~">>, <<"n","u","l","l">>, <<>>}

\* the first character after an optional sign
SignWidth(v) == IF v # <<>> /\ v[1] \in {"+", "-"} THEN 1 ELSE 0

\* an optional sign followed by digits only
IntShaped(v) ==
    /\ Len(v) > SignWidth(v)
    /\ \A i \in (SignWidth(v) + 1)..Len(v) : IsDigit(v[i])

\* an optional sign, digits, a decimal point, at least one digit
DecimalShaped(v) ==
    \E p \in (SignWidth(v) + 1)..(Len(v) - 1) :
        /\ v[p] = "."
        /\ \A i \in ((SignWidth(v) + 1)..Len(v)) \ {p} : IsDigit(v[i])

SignOf(v) == IF v # <<>> /\ v[1] = "-" THEN -1 ELSE 1

DigitsOf(v) == SelectSeq(v, IsDigit)

FractionLen(v) == Len(v) - FirstIndex(v, ".")

\* what the table gives for the stripped unquoted text v
TableValue(v) ==
    IF Lower(v) \in TableTrue THEN PyTrue
    ELSE IF Lower(v) \in TableFalse THEN PyFalse
    ELSE IF Lower(v) \in TableNull THEN PyNone
    ELSE IF IntShaped(v) THEN PyInt(SignOf(v) * DigitsToInt(DigitsOf(v)))
    ELSE IF DecimalShaped(v) THEN PyFloat(SignOf(v) * DigitsToInt(DigitsOf(v)), FractionLen(v))
    ELSE PyStr(v)

Unquoted(v) == v = <<>> \/ v[1] \notin {"\"", "'"}

\* text delimited by [ ] or by { }
FlowDelimited(v) ==
    \/ (StartsWith(v, <<"[">>) /\ EndsWith(v, <<"]">>))
    \/ (StartsWith(v, <<"{">>) /\ EndsWith(v, <<"}">>))

ScalarCallDone == call.fn = "_parse_scalar" /\ ~call.for_key /\ result.err # "pending"

\* C4 (as stated): _parse_scalar maps every unquoted value text by the table:
\* true/yes/on in any case to Bool(true), false/no/off to Bool(false), ~, null and
\* empty to Null, sign-and-digits text to Int, decimal-point text to Float, and
\* every other unquoted text to String.
C4_TableForEveryUnquotedText ==
    (ScalarCallDone /\ Unquoted(Strip(call.raw)))
        => result = Returned(TableValue(Strip(call.raw)))

\* C4 (amended): the table holds for every unquoted value text that is not
\* delimited by [ ] or { }; text so delimited is never returned as a String: it
\* is parsed as an inline collection or raises YAMLError.
C4_TableExceptFlowDelimited ==
    (ScalarCallDone /\ Unquoted(Strip(call.raw)))
        => IF FlowDelimited(Strip(call.raw))
           THEN result.err = "YAMLError" \/ (result.err = "none" /\ result.val.t \in {"list", "tuple", "set", "dict"})
           ELSE result = Returned(TableValue(Strip(call.raw)))

\* C4 witness: a keyword in mixed case was coerced to Bool(true)
C4_Witness ==
    /\ ScalarCallDone
    /\ call.raw # Lower(call.raw)
    /\ Lower(Strip(call.raw)) = <<"y","e","s">>
    /\ result = Returned(PyTrue)

(***************************************************************************)
(* SpecBlock: _parse_block_scalar applied to a key line that ends in a     *)
(* block indicator, followed by at most MaxBlockLines lines.               *)
(***************************************************************************)
MaxBlockLines == 3

BlockFollowers ==
    { <<" "," ","a">>, <<" "," ","b">>, <<" "," "," ","b">>, <<" "," ","a"," ">>,
      <<>>, <<" "," "," ">>, <<"u",":"," ","1">>, <<"#"," ","c">> }

BlockKeyPrefixes == { <<"t",":"," ">>, <<"-"," ">>, <<" "," ","t",":"," ">> }

BlockCalls ==
    { [fn |-> "_parse_block_scalar",
       lines |-> <<k \o ind>> \o body,
       index |-> 0,
       indicator |-> ind,
       base_indent |-> LineIndent(k)] :
         k \in BlockKeyPrefixes,
         ind \in _BLOCK_INDICATORS,
         body \in UNION {[1..n -> BlockFollowers] : n \in 0..MaxBlockLines} }

InitBlock ==
    /\ call \in BlockCalls
    /\ result = [err |-> "pending", val |-> PyNone, idx |-> 0]
    /\ ParserIdle

CallParseBlockScalar ==
    /\ call.fn = "_parse_block_scalar"
    /\ result.err = "pending"
    /\ result' = [err |-> "none",
                  val |-> _parse_block_scalar(call.lines, call.index, call.indicator, call.base_indent).val,
                  idx |-> _parse_block_scalar(call.lines, call.index, call.indicator, call.base_indent).idx]
    /\ UNCHANGED <<call, parserVars>>

NextBlock == CallParseBlockScalar

SpecBlock == InitBlock /\ [][NextBlock]_vars

(***************************************************************************)
(* C5: chomping and joining of a block scalar whose body has no blank line *)
(***************************************************************************)
BlockCallDone == call.fn = "_parse_block_scalar" /\ result.err = "none"

\* the lines the call captured
CapturedBody == Slice(call.lines, call.index + 2, result.idx)

NoBlankLine(body) == \A i \in DOMAIN body : \E j \in DOMAIN body[i] : body[i][j] \notin Whitespace

\* the least number of leading spaces of the lines of a body
StripColumn(body) ==
    CHOOSE m \in 0..100 :
        /\ \E i \in DOMAIN body : LeadingSpaces(body[i]) = m
        /\ \A i \in DOMAIN body : LeadingSpaces(body[i]) >= m

DeIndented(body) ==
    IF body = <<>> THEN <<>>
    ELSE [i \in DOMAIN body |-> Slice(body[i], StripColumn(body) + 1, Len(body[i]))]

\* what the claim gives for an indicator and a body without blank lines
C5_Expected(indicator, body) ==
    IF indicator = <<"|">> THEN JoinWith(DeIndented(body), <<"\n">>) \o <<"\n">>
    ELSE IF indicator = <<"|","-">> THEN JoinWith(DeIndented(body), <<"\n">>)
    ELSE IF indicator = <<"|","+">> THEN JoinWith(DeIndented(body), <<"\n">>) \o <<"\n">>
    ELSE IF indicator = <<">","-">> THEN JoinWith(DeIndented(body), <<" ">>)
    ELSE JoinWith(DeIndented(body), <<" ">>) \o <<"\n">>

\* C5: for a block scalar whose body lines are all non-blank, | yields the
\* de-indented lines joined by newline plus one trailing newline, |- the same
\* without a trailing newline, >- the lines joined by single spaces without a
\* trailing newline, and |+ / >+ (and >) the joined text plus one trailing newline.
C5_ChompAndJoin ==
    (BlockCallDone /\ NoBlankLine(CapturedBody))
        => result.val = PyStr(C5_Expected(call.indicator, CapturedBody))

\* C5 witness: the body a, b under |- gave "a\nb"
C5_Witness ==
    /\ BlockCallDone
    /\ call.indicator = <<"|","-">>
    /\ CapturedBody = << <<" "," ","a">>, <<" "," ","b">> >>
    /\ result.val = PyStr(<<"a","\n","b">>)

(***************************************************************************)
(* json.loads, on the texts the parser's inputs here can hold: strings     *)
(* without escapes, integers and decimal fractions, true / false / null,   *)
(* arrays and objects.  Exponents, escapes, NaN and Infinity appear in no  *)
(* input below.                                                            *)
(***************************************************************************)
JsonWhitespace == {" ", "\t", "\n", "\r"}

JsonFail == Raise("JSONDecodeError")

RECURSIVE JsonSkipWs(_, _)
JsonSkipWs(s, i) == IF i <= Len(s) /\ s[i] \in JsonWhitespace THEN JsonSkipWs(s, i + 1) ELSE i

\* s[i..] starts with word
StartsWithAt(s, i, word) == i + Len(word) - 1 <= Len(s) /\ Slice(s, i, i + Len(word) - 1) = word

\* a number at i: -?(0|[1-9][0-9]*)(\.[0-9]+)?
JsonNumber(s, i) ==
    LET neg == s[i] = "-"
        b == IF neg THEN i + 1 ELSE i
        ie == IF b <= Len(s) /\ s[b] = "0" THEN b + 1 ELSE RunEnd(s, b, Range(Digits))
        ip == Slice(s, b, ie - 1)
        fe == IF ie <= Len(s) /\ s[ie] = "." THEN RunEnd(s, ie + 1, Range(Digits)) ELSE ie
        frac == fe > ie + 1
    IN  IF ip = <<>> THEN LitFail
        ELSE IF frac THEN LitOk(DecimalToFloat(neg, ip, Slice(s, ie + 1, fe - 1)), fe)
        ELSE LitOk(PyInt((IF neg THEN -1 ELSE 1) * DigitsToInt(ip)), ie)

\* a string at i, where s[i] is the opening quote
JsonString(s, i) ==
    LET closers == {k \in (i + 1)..Len(s) : s[k] = "\""}
    IN  IF closers = {} THEN LitFail
        ELSE LET k == CHOOSE c \in closers : \A d \in closers : c <= d
                 body == Slice(s, i + 1, k - 1)
             IN  IF \E p \in DOMAIN body : body[p] \in {"\\", "\n", "\t", "\r"} THEN LitFail
                 ELSE LitOk(PyStr(body), k + 1)

\* one scalar at i
JsonToken(s, i) ==
    IF s[i] = "\"" THEN JsonString(s, i)
    ELSE IF s[i] = "-" \/ IsDigit(s[i]) THEN JsonNumber(s, i)
    ELSE IF StartsWithAt(s, i, <<"t","r","u","e">>) THEN LitOk(PyTrue, i + 4)
    ELSE IF StartsWithAt(s, i, <<"f","a","l","s","e">>) THEN LitOk(PyFalse, i + 5)
    ELSE IF StartsWithAt(s, i, <<"n","u","l","l">>) THEN LitOk(PyNone, i + 4)
    ELSE LitFail

RECURSIVE JsonRun(_, _, _, _, _)
RECURSIVE JsonAfterToken(_, _, _)

JsonAfterToken(s, stk, tok) ==
    IF tok.ok THEN JsonRun(s, tok.pos, stk, "have", tok.val) ELSE JsonFail

\* the document from i on, inside the arrays and objects of stk.  mode "have":
\* the value v has just been read; "open": an array or object has just been
\* opened; "value": a value must follow; "key": a key must follow
JsonRun(s, i, stk, mode, v) ==
    LET j == JsonSkipWs(s, i)
        atEnd == j > Len(s)
        c == IF atEnd THEN "" ELSE s[j]
        top == IF stk = <<>> THEN Display("none", PyNone, FALSE, PyNone) ELSE Top(stk)
    IN  IF mode = "have" THEN
            IF top.kind = "none" THEN (IF atEnd THEN Returned(v) ELSE JsonFail)
            ELSE IF top.kind = "list" THEN
                IF c = "," THEN JsonRun(s, j + 1, SetTop(stk, Display("list", ListAdd(top.acc, v), FALSE, PyNone)), "value", PyNone)
                ELSE IF c = "]" THEN JsonRun(s, j + 1, Pop(stk), "have", ListAdd(top.acc, v))
                ELSE JsonFail
            ELSE IF top.haskey THEN
                IF c = "," THEN JsonRun(s, j + 1, SetTop(stk, Display("dict", DictSet(top.acc, top.key, v), FALSE, PyNone)), "key", PyNone)
                ELSE IF c = "}" THEN JsonRun(s, j + 1, Pop(stk), "have", DictSet(top.acc, top.key, v))
                ELSE JsonFail
            ELSE IF c = ":" THEN JsonRun(s, j + 1, SetTop(stk, Display("dict", top.acc, TRUE, v)), "value", PyNone)
            ELSE JsonFail
        ELSE IF atEnd THEN JsonFail
        ELSE IF top.kind = "dict" /\ ~top.haskey THEN
            IF c = "}" /\ mode = "open" THEN JsonRun(s, j + 1, Pop(stk), "have", top.acc)
            ELSE IF c = "\"" THEN JsonAfterToken(s, stk, JsonString(s, j))
            ELSE JsonFail
        ELSE IF c = "]" /\ mode = "open" THEN JsonRun(s, j + 1, Pop(stk), "have", top.acc)
        ELSE IF c = "[" THEN JsonRun(s, j + 1, Append(stk, Display("list", PyList(<<>>), FALSE, PyNone)), "open", PyNone)
        ELSE IF c = "{" THEN JsonRun(s, j + 1, Append(stk, Display("dict", PyDict(<<>>, <<>>), FALSE, PyNone)), "open", PyNone)
        ELSE JsonAfterToken(s, stk, JsonToken(s, j))

\* json.loads(s): the value, or JSONDecodeError
JsonLoads(s) == JsonRun(s, 1, <<>>, "value", PyNone)

(***************************************************************************)
(* _split_documents and _strip_comment                                     *)
(***************************************************************************)
RECURSIVE SplitLinesFrom(_, _, _)
\* text.splitlines(), from character i, with cur the line being read
SplitLinesFrom(t, i, cur) ==
    IF i > Len(t) THEN (IF cur = <<>> THEN <<>> ELSE <<cur>>)
    ELSE IF t[i] = "\n" THEN <<cur>> \o SplitLinesFrom(t, i + 1, <<>>)
    ELSE SplitLinesFrom(t, i + 1, Append(cur, t[i]))

SplitLines(t) == SplitLinesFrom(t, 1, <<>>)

\* flush() of _split_documents: the documents after it
flushAlways(docs, current) == Append(docs, current)
flush(docs, current) == IF current # <<>> THEN Append(docs, current) ELSE docs

IsSeparator(line) == LineStripped(line) \in {<<"-","-","-">>, <<".",".",".">>}

RECURSIVE SplitLoop(_, _, _, _)
\* the loop of _split_documents from line i, and the flush after it
SplitLoop(lines, i, docs, current) ==
    IF i > Len(lines) THEN flush(docs, current)
    ELSE IF IsBlankOrComment(lines[i]) THEN SplitLoop(lines, i + 1, docs, Append(current, lines[i]))
    ELSE IF IsSeparator(lines[i]) THEN SplitLoop(lines, i + 1, flush(docs, current), <<>>)
    ELSE SplitLoop(lines, i + 1, docs, Append(current, lines[i]))

_split_documents(t) ==
    LET docs == SplitLoop(SplitLines(t), 1, <<>>, <<>>)
    IN  IF docs = <<>> THEN << <<>> >> ELSE docs

RECURSIVE StripCommentFrom(_, _, _, _)
StripCommentFrom(value, idx, in_single, in_double) ==
    IF idx > Len(value) THEN RStrip(value)
    ELSE IF value[idx] = "'" /\ ~in_double THEN StripCommentFrom(value, idx + 1, ~in_single, in_double)
    ELSE IF value[idx] = "\"" /\ ~in_single THEN StripCommentFrom(value, idx + 1, in_single, ~in_single)
    ELSE IF value[idx] = "#" /\ ~in_single /\ ~in_double THEN RStrip(Slice(value, 1, idx - 1))
    ELSE StripCommentFrom(value, idx + 1, in_single, in_double)

_strip_comment(value) == StripCommentFrom(value, 1, FALSE, FALSE)

(***************************************************************************)
(* The parser as a machine.  A frame of stack is one call that is running: *)
(* _parse_document ("document"), _parse_structure ("struct") or            *)
(* _parse_inline_mapping ("inline"), with its cursor (index), its indent   *)
(* argument, the collection it is building (coll), what it awaits from the *)
(* call above it (wait) and the key that value is for.                     *)
(***************************************************************************)
Frame(fn, index, indent, coll, wait, key) ==
    [fn |-> fn, index |-> index, indent |-> indent, coll |-> coll, wait |-> wait, key |-> key]

\* the lines of the document that is being parsed
Lines == documents[docIndex]

Config(stk, r, p, y, d) == [stack |-> stk, raised |-> r, pc |-> p, yielded |-> y, docIndex |-> d]

\* raise kind: every frame is unwound
Throw(kind) == Config(<<>>, kind, "except", yielded, docIndex)

\* parsing goes on with the frames stk
Resume(stk) == Config(stk, "none", "parsing", yielded, docIndex)

Become(cfg) ==
    /\ stack' = cfg.stack
    /\ raised' = cfg.raised
    /\ pc' = cfg.pc
    /\ yielded' = cfg.yielded
    /\ docIndex' = cfg.docIndex
    /\ UNCHANGED <<call, result, text, documents>>

RECURSIVE DictUpdateFrom(_, _, _)
DictUpdateFrom(d, other, i) ==
    IF i > Len(other.keys) THEN d
    ELSE DictUpdateFrom(DictSet(d, other.keys[i], other.items[i]), other, i + 1)

\* d.update(other)
DictUpdate(d, other) == DictUpdateFrom(d, other, 1)

\* the collection of frame f is not None and not of this kind
MixedStructureNever(coll, kind) == FALSE
MixedStructure(coll, kind) == coll.t # "none" /\ coll.t # kind

\* collection[key] = value in frame f, which goes on at idx above the frames stk
SetItem(stk, f, key, value, idx) ==
    IF Hashable(key)
    THEN Resume(Append(stk, [f EXCEPT !.coll = DictSet(f.coll, key, value), !.index = idx, !.wait = "none"]))
    ELSE Throw("TypeError")

\* collection[key] = the scalar r, which may have failed to parse
SetScalarSameLine(f, key, r) ==
    IF r.err # "none" THEN Throw(r.err) ELSE SetItem(Pop(stack), f, key, r.val, f.index)
SetScalar(f, key, r) ==
    IF r.err # "none" THEN Throw(r.err) ELSE SetItem(Pop(stack), f, key, r.val, f.index + 1)

\* collection[key] = the block scalar b
SetBlock(f, key, b) == SetItem(Pop(stack), f, key, b.val, b.idx)

\* item[k] = value, for the parsed sub-key k
SetSubKey(stk, f, k, value, idx) ==
    IF k.err # "none" THEN Throw(k.err) ELSE SetItem(stk, f, k.val, value, idx)

\* item[_parse_scalar(subkey_raw, for_key=True)] = value
SetSubItem(stk, f, subkey_raw, value, idx) ==
    SetSubKey(stk, f, _parse_scalar(subkey_raw, TRUE), value, idx)

SetSubScalar(f, subkey_raw, r) ==
    IF r.err # "none" THEN Throw(r.err) ELSE SetSubItem(Pop(stack), f, subkey_raw, r.val, f.index + 1)

SetSubBlock(f, subkey_raw, b) == SetSubItem(Pop(stack), f, subkey_raw, b.val, b.idx)

\* collection.append(r), for the scalar r
AppendScalar(f, r) ==
    IF r.err # "none" THEN Throw(r.err)
    ELSE Resume(SetTop(stack, [f EXCEPT !.coll = ListAdd(f.coll, r.val), !.index = f.index + 1]))

\* collection.append(b), for the block scalar b
AppendBlock(f, b) ==
    Resume(SetTop(stack, [f EXCEPT !.coll = ListAdd(f.coll, b.val), !.index = b.idx]))

\* frame f calls callee and awaits its value as wait
Call(f, wait, key, callee) ==
    Resume(Append(SetTop(stack, [f EXCEPT !.wait = wait, !.key = key]), callee))

RECURSIVE TrailingContent(_, _)
\* the loop of _parse_document after _parse_structure: it raises
TrailingContent(lines, index) ==
    /\ index < Len(lines)
    /\ \/ LineStripped(LineAt(lines, index)) \notin {<<>>, <<"#">>}
       \/ TrailingContent(lines, index + 1)

\* the running call returns (value, idx) to the frame below it
Return(value, idx) ==
    LET caller == stack[Len(stack) - 1]
        rest == Slice(stack, 1, Len(stack) - 2)
    IN  CASE caller.wait = "document" ->
                IF TrailingContent(Lines, idx) THEN Throw("YAMLError")
                ELSE Config(<<>>, "none", "document", Append(yielded, value), docIndex + 1)
          [] caller.wait = "seq_item" ->
                Resume(Append(rest, [caller EXCEPT !.coll = ListAdd(caller.coll, value),
                                                   !.index = idx, !.wait = "none"]))
          [] caller.wait \in {"map_value", "first"} -> SetItem(rest, caller, caller.key, value, idx)
          [] caller.wait = "nested" ->
                IF value.t = "dict"
                THEN Resume(Append(rest, [caller EXCEPT !.coll = DictUpdate(caller.coll, value),
                                                        !.index = idx, !.wait = "none"]))
                ELSE Throw("YAMLError")
          [] caller.wait = "sub" -> SetSubItem(rest, caller, caller.key.s, value, idx)

\* _parse_structure, lines 311-333: the line is a sequence item
SequenceItem(f, line, value_part) ==
    IF MixedStructure(f.coll, "list") THEN Throw("YAMLError")
    ELSE IF value_part \in _BLOCK_INDICATORS
    THEN AppendBlock([f EXCEPT !.coll = IF f.coll.t = "none" THEN PyList(<<>>) ELSE f.coll],
                     _parse_block_scalar(Lines, f.index, value_part, LineIndent(line)))
    ELSE IF value_part = <<>>
    THEN Call([f EXCEPT !.coll = IF f.coll.t = "none" THEN PyList(<<>>) ELSE f.coll], "seq_item", PyNone,
              Frame("struct", f.index + 1, LineIndent(line) + 2, PyNone, "none", PyNone))
    ELSE IF Contains(value_part, ":") /\ Strip(value_part)[1] \notin {"{", "[", "'", "\""}
    THEN Call([f EXCEPT !.coll = IF f.coll.t = "none" THEN PyList(<<>>) ELSE f.coll], "seq_item", PyNone,
              Frame("inline", f.index, LineIndent(line), PyDict(<<>>, <<>>), "begin", PyStr(value_part)))
    ELSE AppendScalar([f EXCEPT !.coll = IF f.coll.t = "none" THEN PyList(<<>>) ELSE f.coll],
                      _parse_scalar(value_part, FALSE))

\* _parse_structure, lines 343-355: the entry key : value_part
MappingValueOneDeeper(f, key, value_part, line) ==
    IF key.err # "none" THEN Throw(key.err)
    ELSE IF value_part \in _BLOCK_INDICATORS
    THEN SetBlock(f, key.val, _parse_block_scalar(Lines, f.index, value_part, LineIndent(line)))
    ELSE IF value_part = <<>>
    THEN Call(f, "map_value", key.val,
              Frame("struct", f.index + 1, LineIndent(line) + 1, PyNone, "none", PyNone))
    ELSE SetScalar(f, key.val, _parse_scalar(value_part, FALSE))
MappingValue(f, key, value_part, line) ==
    IF key.err # "none" THEN Throw(key.err)
    ELSE IF value_part \in _BLOCK_INDICATORS
    THEN SetBlock(f, key.val, _parse_block_scalar(Lines, f.index, value_part, LineIndent(line)))
    ELSE IF value_part = <<>>
    THEN Call(f, "map_value", key.val,
              Frame("struct", f.index + 1, LineIndent(line) + 2, PyNone, "none", PyNone))
    ELSE SetScalar(f, key.val, _parse_scalar(value_part, FALSE))

\* _parse_structure, lines 335-355: the line is a mapping entry
MappingEntry(f, line, stripped) ==
    IF ~Contains(stripped, ":") THEN Throw("YAMLError")
    ELSE IF MixedStructure(f.coll, "dict") THEN Throw("YAMLError")
    ELSE MappingValue([f EXCEPT !.coll = IF f.coll.t = "none" THEN PyDict(<<>>, <<>>) ELSE f.coll],
                      _parse_scalar(SplitOnce(stripped, ":")[1], TRUE),
                      LStrip(_strip_comment(SplitOnce(stripped, ":")[2])),
                      line)

\* _parse_inline_mapping, lines 250-261
InlineFirst(f, key, remainder) ==
    IF key.err # "none" THEN Throw(key.err)
    ELSE IF remainder # <<>> THEN SetScalar(f, key.val, _parse_scalar(remainder, FALSE))
    ELSE Call(f, "first", key.val, Frame("struct", f.index + 1, f.indent + 2, PyNone, "none", PyNone))

\* _parse_inline_mapping, lines 281-292
InlineValue(f, subkey_raw, subvalue_text, line) ==
    IF subvalue_text \in _BLOCK_INDICATORS
    THEN SetSubBlock(f, subkey_raw, _parse_block_scalar(Lines, f.index, subvalue_text, LineIndent(line)))
    ELSE IF subvalue_text = <<>>
    THEN Call(f, "sub", PyStr(subkey_raw),
              Frame("struct", f.index + 1, LineIndent(line) + 2, PyNone, "none", PyNone))
    ELSE SetSubScalar(f, subkey_raw, _parse_scalar(subvalue_text, FALSE))

(***************************************************************************)
(* Spec: safe_load and safe_load_all applied to one text of at most        *)
(* MaxLines lines, each one of LineTemplates.                              *)
(***************************************************************************)
MaxLines == 3

LineTemplates ==
    { <<"a",":"," ","1">>,
      <<"b",":"," ","2">>,
      <<"-"," ","x">>,
      <<"-"," ","a",":"," ","1">>,
      <<" "," ","b",":"," ","2">>,
      <<" "," ","-"," ","c">>,
      <<" "," "," "," ","b",":"," ","2">>,
      <<"a",":">>,
      <<"t",":"," ","|">>,
      <<"[","a","]",":"," ","2">>,
      <<"[","1","]">>,
      <<"b">>,
      <<"-","-","-">>,
      <<".",".",".">>,
      <<>>,
      <<"#"," ","c">> }

RECURSIVE JoinLines(_)
\* the text whose lines are ls
JoinLines(ls) == IF ls = <<>> THEN <<>> ELSE Head(ls) \o <<"\n">> \o JoinLines(Tail(ls))

Texts == {JoinLines(ls) : ls \in UNION {[1..k -> LineTemplates] : k \in 0..MaxLines}}

Init ==
    /\ call \in {[fn |-> "safe_load"], [fn |-> "safe_load_all"]}
    /\ text \in Texts
    /\ result = Pending
    /\ documents = <<>>
    /\ docIndex = 0
    /\ yielded = <<>>
    /\ stack = <<>>
    /\ raised = "none"
    /\ pc = "start"

RECURSIVE LStripAll(_)
\* text.lstrip()
LStripAll(t) == IF t # <<>> /\ Head(t) \in JsonWhitespace THEN LStripAll(Tail(t)) ELSE t

\* safe_load, lines 391-396: the JSON reader is tried first on text that
\* starts with a brace or a bracket
LooksLikeJson(t) == StartsWith(LStripAll(t), <<"{">>) \/ StartsWith(LStripAll(t), <<"[">>)

Begin ==
    /\ pc = "start"
    /\ IF call.fn = "safe_load" /\ LooksLikeJson(text) /\ JsonLoads(text).err = "none"
       THEN result' = JsonLoads(text) /\ pc' = "done"
       ELSE result' = result /\ pc' = "split"
    /\ UNCHANGED <<call, text, documents, docIndex, yielded, stack, raised>>

\* safe_load_all, line 411
SplitDocuments ==
    /\ pc = "split"
    /\ documents' = _split_documents(text)
    /\ docIndex' = 1
    /\ pc' = "document"
    /\ UNCHANGED <<call, result, text, yielded, stack, raised>>

\* safe_load_all, line 412, and _parse_document, lines 363-365
ParseDocumentIndented ==
    /\ pc = "document"
    /\ docIndex <= Len(documents)
    /\ IF Lines = <<>>
       THEN Become(Config(<<>>, "none", "document", Append(yielded, PyNone), docIndex + 1))
       ELSE Become(Resume(<<Frame("document", 0, 0, PyNone, "document", PyNone),
                            Frame("struct", 0, 2, PyNone, "none", PyNone)>>))
ParseDocument ==
    /\ pc = "document"
    /\ docIndex <= Len(documents)
    /\ IF Lines = <<>>
       THEN Become(Config(<<>>, "none", "document", Append(yielded, PyNone), docIndex + 1))
       ELSE Become(Resume(<<Frame("document", 0, 0, PyNone, "document", PyNone),
                            Frame("struct", 0, 0, PyNone, "none", PyNone)>>))

\* the documents are exhausted: list(safe_load_all(text)), and safe_load, lines 404-406
Exhausted ==
    /\ pc = "document"
    /\ docIndex > Len(documents)
    /\ result' = IF call.fn = "safe_load_all" THEN Returned(PyList(yielded))
                 ELSE IF yielded = <<>> THEN Returned(PyNone)
                 ELSE Returned(yielded[1])
    /\ pc' = "done"
    /\ UNCHANGED <<call, text, documents, docIndex, yielded, stack, raised>>

\* an exception leaves safe_load_all; safe_load, lines 399-403, catches YAMLError only
Except ==
    /\ pc = "except"
    /\ result' = IF call.fn = "safe_load" /\ raised = "YAMLError" /\ JsonLoads(text).err = "none"
                 THEN JsonLoads(text)
                 ELSE Raise(raised)
    /\ pc' = "done"
    /\ UNCHANGED <<call, text, documents, docIndex, yielded, stack, raised>>

\* the call on top of the stack is fn, at the head of its loop
Running(fn) == pc = "parsing" /\ Top(stack).fn = fn /\ Top(stack).wait = "none"

\* the line under the cursor of the running call
AtLine == Top(stack).index < Len(Lines)
Line == LineAt(Lines, Top(stack).index)

\* _parse_structure, lines 304-306
StructSkipLine ==
    /\ Running("struct") /\ AtLine /\ IsBlankOrComment(Line)
    /\ Become(Resume(SetTop(stack, [Top(stack) EXCEPT !.index = @ + 1])))

\* _parse_structure, lines 300, 308-309 and 357-359
StructReturn ==
    /\ Running("struct")
    /\ IF AtLine THEN ~IsBlankOrComment(Line) /\ LineIndent(Line) < Top(stack).indent ELSE TRUE
    /\ Become(Return(Top(stack).coll, Top(stack).index))

\* _parse_structure, lines 311-333
StructSequenceItem ==
    /\ Running("struct") /\ AtLine /\ ~IsBlankOrComment(Line)
    /\ LineIndent(Line) >= Top(stack).indent
    /\ StartsWith(LineStripped(Line), <<"-"," ">>)
    /\ Become(SequenceItem(Top(stack), Line,
                           _strip_comment(Slice(LineStripped(Line), 3, Len(LineStripped(Line))))))

\* _parse_structure, lines 335-355
StructMappingEntry ==
    /\ Running("struct") /\ AtLine /\ ~IsBlankOrComment(Line)
    /\ LineIndent(Line) >= Top(stack).indent
    /\ ~StartsWith(LineStripped(Line), <<"-"," ">>)
    /\ Become(MappingEntry(Top(stack), Line, LineStripped(Line)))

\* _parse_inline_mapping, lines 250-261
InlineBegin ==
    /\ pc = "parsing" /\ Top(stack).fn = "inline" /\ Top(stack).wait = "begin"
    /\ Become(InlineFirst([Top(stack) EXCEPT !.wait = "none", !.key = PyNone],
                          _parse_scalar(SplitOnce(Top(stack).key.s, ":")[1], TRUE),
                          Strip(SplitOnce(Top(stack).key.s, ":")[2])))

\* _parse_inline_mapping, lines 266-268
InlineSkipLine ==
    /\ Running("inline") /\ AtLine /\ IsBlankOrComment(Line)
    /\ Become(Resume(SetTop(stack, [Top(stack) EXCEPT !.index = @ + 1])))

\* _parse_inline_mapping, lines 263, 269-270, 277-278 and 293
InlineReturn ==
    /\ Running("inline")
    /\ IF AtLine
       THEN /\ ~IsBlankOrComment(Line)
            /\ \/ LineIndent(Line) < Top(stack).indent + 2
               \/ /\ LineIndent(Line) = Top(stack).indent + 2
                  /\ StartsWith(LineStripped(Line), <<"-"," ">>)
       ELSE TRUE
    /\ Become(Return(Top(stack).coll, Top(stack).index))

\* _parse_inline_mapping, lines 271-276
InlineNested ==
    /\ Running("inline") /\ AtLine /\ ~IsBlankOrComment(Line)
    /\ LineIndent(Line) > Top(stack).indent + 2
    /\ Become(Call(Top(stack), "nested", PyNone,
                   Frame("struct", Top(stack).index, Top(stack).indent + 2, PyNone, "none", PyNone)))

\* _parse_inline_mapping, lines 277-292
InlineEntry ==
    /\ Running("inline") /\ AtLine /\ ~IsBlankOrComment(Line)
    /\ LineIndent(Line) = Top(stack).indent + 2
    /\ ~StartsWith(LineStripped(Line), <<"-"," ">>)
    /\ IF ~Contains(LineStripped(Line), ":") THEN Become(Throw("YAMLError"))
       ELSE Become(InlineValue(Top(stack),
                               SplitOnce(LineStripped(Line), ":")[1],
                               LStrip(_strip_comment(SplitOnce(LineStripped(Line), ":")[2])),
                               Line))

Next ==
    \/ Begin
    \/ SplitDocuments
    \/ ParseDocument
    \/ Exhausted
    \/ Except
    \/ StructSkipLine
    \/ StructReturn
    \/ StructSequenceItem
    \/ StructMappingEntry
    \/ InlineBegin
    \/ InlineSkipLine
    \/ InlineReturn
    \/ InlineNested
    \/ InlineEntry

Spec == Init /\ [][Next]_vars

(***************************************************************************)
(* C1: list and mapping markers in one scan.                               *)
(***************************************************************************)
\* the running _parse_structure call is at a line it will read as an item or
\* an entry, and the line is of the other kind than its collection
MixedLine ==
    /\ Running("struct") /\ AtLine /\ ~IsBlankOrComment(Line)
    /\ LineIndent(Line) >= Top(stack).indent
    /\ \/ Top(stack).coll.t = "dict" /\ StartsWith(LineStripped(Line), <<"-"," ">>)
       \/ Top(stack).coll.t = "list" /\ ~StartsWith(LineStripped(Line), <<"-"," ">>)

\* C1: within one scan of _parse_structure, a line that starts with "- " met
\* once the collection is a mapping, and an entry line met once the collection
\* is a sequence, makes the parse raise YAMLError: every call is unwound and
\* nothing is added to any collection.
C1_MixedMarkersRaise ==
    [][MixedLine => (raised' = "YAMLError" /\ stack' = <<>> /\ pc' = "except" /\ yielded' = yielded)]_vars

C1_Witness ==
    /\ text = JoinLines(<< <<"a",":"," ","1">>, <<"-"," ","x">> >>)
    /\ pc = "done"
    /\ raised = "YAMLError"
    /\ result = Raise("YAMLError")

(***************************************************************************)
(* C2: the documents of a text.                                            *)
(***************************************************************************)
RECURSIVE Stretches(_, _, _)
\* the stretches of lines that the separator lines cut the lines into, with
\* cur the stretch being read
Stretches(lines, i, cur) ==
    IF i > Len(lines) THEN <<cur>>
    ELSE IF IsSeparator(lines[i]) THEN <<cur>> \o Stretches(lines, i + 1, <<>>)
    ELSE Stretches(lines, i + 1, Append(cur, lines[i]))

Sections(t) == Stretches(SplitLines(t), 1, <<>>)

\* the sections when one that holds no line counts if it lies between two
\* separators; a text with no section at all counts as one
DelimitedSectionCount(t) ==
    LET n == Cardinality({i \in DOMAIN Sections(t) :
                            Sections(t)[i] # <<>> \/ (1 < i /\ i < Len(Sections(t)))})
    IN  IF n = 0 THEN 1 ELSE n

\* the sections that hold at least one line, in file order
RECURSIVE NonEmpty(_)
NonEmpty(ss) ==
    IF ss = <<>> THEN <<>>
    ELSE IF Head(ss) = <<>> THEN NonEmpty(Tail(ss))
    ELSE <<Head(ss)>> \o NonEmpty(Tail(ss))

\* the kind of value a section of lines parses to: none when every line is
\* blank or a comment, else list or dict by the first line that is neither
RECURSIVE SectionKind(_)
SectionKind(lines) ==
    IF lines = <<>> THEN "none"
    ELSE IF IsBlankOrComment(Head(lines)) THEN SectionKind(Tail(lines))
    ELSE IF StartsWith(LineStripped(Head(lines)), <<"-"," ">>) THEN "list"
    ELSE "dict"

AllDocumentsYielded == pc = "done" /\ call.fn = "safe_load_all" /\ result.err = "none"

\* C2 as stated: safe_load_all yields one value per separator-delimited
\* section, a section without lines between two separators included.
C2_OneValuePerSection ==
    AllDocumentsYielded => Len(yielded) = DelimitedSectionCount(text)

\* C2: safe_load_all yields one value per section that holds at least one
\* line, in file order, and one None when no section holds a line; a section
\* without lines yields nothing.
C2_OneValuePerNonEmptySection ==
    AllDocumentsYielded =>
        LET held == NonEmpty(Sections(text))
        IN  /\ held = <<>> => yielded = <<PyNone>>
            /\ held # <<>> =>
                /\ Len(yielded) = Len(held)
                /\ \A i \in DOMAIN held : yielded[i].t = SectionKind(held[i])
            /\ text = JoinLines(<< <<"a",":"," ","1">>, <<"-","-","-">>, <<"b",":"," ","2">> >>)
                => yielded = << PyDict(<<PyStr(<<"a">>)>>, <<PyInt(1)>>),
                                PyDict(<<PyStr(<<"b">>)>>, <<PyInt(2)>>) >>

\* two separators in a row after a document: the empty section yields nothing
C2_Witness ==
    /\ AllDocumentsYielded
    /\ DelimitedSectionCount(text) = 2
    /\ Len(NonEmpty(Sections(text))) = 1
    /\ yielded = << PyDict(<<PyStr(<<"a">>)>>, <<PyInt(1)>>) >>

(***************************************************************************)
(* C3: safe_load and the documents after the first.                        *)
(***************************************************************************)
\* C3 as stated: when the first document of a text is well formed, safe_load
\* returns its value, whatever the later documents hold.
C3_FirstDocumentOnly ==
    (pc = "done" /\ call.fn = "safe_load" /\ yielded # <<>>) => result = Returned(yielded[1])

(***************************************************************************)
(* C6: the exceptions that leave safe_load and safe_load_all.              *)
(***************************************************************************)
\* C6 as stated: safe_load and safe_load_all return a value or raise
\* YAMLError; no other exception leaves them.
C6_OnlyFormatError ==
    pc = "done" => result.err \in {"none", "YAMLError"}

(***************************************************************************)
(* The schema validator.  Schemas and instances are Python values; the     *)
(* keywords of a schema node are these keys.                               *)
(***************************************************************************)
K_ref == PyStr(<<"$","r","e","f">>)
K_type == PyStr(<<"t","y","p","e">>)
K_enum == PyStr(<<"e","n","u","m">>)
K_const == PyStr(<<"c","o","n","s","t">>)
K_pattern == PyStr(<<"p","a","t","t","e","r","n">>)
K_minLength == PyStr(<<"m","i","n","L","e","n","g","t","h">>)
K_maxLength == PyStr(<<"m","a","x","L","e","n","g","t","h">>)
K_minimum == PyStr(<<"m","i","n","i","m","u","m">>)
K_maximum == PyStr(<<"m","a","x","i","m","u","m">>)
K_exclusiveMinimum == PyStr(<<"e","x","c","l","u","s","i","v","e","M","i","n","i","m","u","m">>)
K_exclusiveMaximum == PyStr(<<"e","x","c","l","u","s","i","v","e","M","a","x","i","m","u","m">>)
K_required == PyStr(<<"r","e","q","u","i","r","e","d">>)
K_properties == PyStr(<<"p","r","o","p","e","r","t","i","e","s">>)
K_additionalProperties == PyStr(<<"a","d","d","i","t","i","o","n","a","l","P","r","o","p","e","r","t","i","e","s">>)
K_minItems == PyStr(<<"m","i","n","I","t","e","m","s">>)
K_maxItems == PyStr(<<"m","a","x","I","t","e","m","s">>)
K_items == PyStr(<<"i","t","e","m","s">>)
K_allOf == PyStr(<<"a","l","l","O","f">>)
K_anyOf == PyStr(<<"a","n","y","O","f">>)
K_oneOf == PyStr(<<"o","n","e","O","f">>)

T_object == PyStr(<<"o","b","j","e","c","t">>)
T_array == PyStr(<<"a","r","r","a","y">>)
T_string == PyStr(<<"s","t","r","i","n","g">>)
T_integer == PyStr(<<"i","n","t","e","g","e","r">>)
T_number == PyStr(<<"n","u","m","b","e","r">>)
T_boolean == PyStr(<<"b","o","o","l","e","a","n">>)
T_null == PyStr(<<"n","u","l","l">>)

\* the outcome of a validation: it returned, raised ValidationError(msg, path),
\* or raised an exception of another kind
Ok == [err |-> "none", msg |-> <<>>, path |-> <<>>]
Crash(kind) == [err |-> kind, msg |-> <<>>, path |-> <<>>]

\* a message: text, then str(arg) when there is an arg, then tail
Message(txt, hasarg, arg, tail) == <<PyStr(txt), PyBool(hasarg), arg, PyStr(tail)>>

Plain(txt) == Message(txt, FALSE, PyNone, <<>>)

ValidationError(msg, path) == [err |-> "ValidationError", msg |-> msg, path |-> path]

\* the first outcome of rs that is not a return, as a chain of checks that
\* stops at the first exception gives it
FirstFailure(rs) ==
    IF \A i \in DOMAIN rs : rs[i].err = "none" THEN Ok
    ELSE rs[Min({i \in DOMAIN rs : rs[i].err # "none"})]

\* bool(v) is False
Falsy(v) ==
    \/ v.t = "none"
    \/ IsNumeric(v) /\ v.n = 0
    \/ v.t = "str" /\ v.s = <<>>
    \/ v.t \in {"list", "tuple", "set"} /\ v.items = <<>>
    \/ v.t = "dict" /\ v.keys = <<>>

\* v or {}
OrEmpty(v) == IF Falsy(v) THEN PyDict(<<>>, <<>>) ELSE v

\* d.get(k, default)
Get(d, k, default) == IF DictHas(d, k) THEN DictGet(d, k) ELSE default

\* a < b, for numbers
NumLess(a, b) == a.n * Pow10(b.e) < b.n * Pow10(a.e)

RECURSIVE IntToStr(_)
\* str(n), for n >= 0
IntToStr(n) == IF n < 10 THEN <<Digits[n + 1]>> ELSE IntToStr(n \div 10) \o <<Digits[(n % 10) + 1]>>

\* one element of a path as _format_path renders it: a text or an index
FormatElement(element) ==
    IF element.t = "int" THEN <<"[">> \o IntToStr(element.n) \o <<"]">>
    ELSE <<".">> \o element.s

RECURSIVE FormatElements(_)
FormatElements(path) ==
    IF path = <<>> THEN <<>> ELSE FormatElement(Head(path)) \o FormatElements(Tail(path))

_format_path(path) == <<"i","n","s","t","a","n","c","e">> \o FormatElements(path)

\* isinstance(instance, type_map[expected])
IsInstanceNoBool(expected, instance) ==
    CASE expected = T_object -> instance.t = "dict"
      [] expected = T_array -> instance.t = "list"
      [] expected = T_string -> instance.t = "str"
      [] expected = T_integer -> instance.t \in {"int", "bool"}
      [] expected = T_number -> instance.t \in {"int", "float"}
      [] expected = T_boolean -> instance.t = "bool"
      [] expected = T_null -> instance.t = "none"
IsInstance(expected, instance) ==
    CASE expected = T_object -> instance.t = "dict"
      [] expected = T_array -> instance.t = "list"
      [] expected = T_string -> instance.t = "str"
      [] expected = T_integer -> instance.t \in {"int", "bool"}
      [] expected = T_number -> instance.t \in {"int", "bool", "float"}
      [] expected = T_boolean -> instance.t = "bool"
      [] expected = T_null -> instance.t = "none"

type_map == {T_object, T_array, T_string, T_integer, T_number, T_boolean, T_null}

RECURSIVE _check_type(_, _, _)
\* the options of a list of types, from option i on
RECURSIVE CheckTypeOptions(_, _, _, _)
CheckTypeOptions(expected, i, instance, path) ==
    IF i > Len(expected.items)
    THEN ValidationError(Message(_format_path(path) \o <<" ","i","s"," ","n","o","t"," ","a","n","y"," ","o","f"," ">>,
                                 TRUE, expected, <<>>), path)
    ELSE IF _check_type(expected.items[i], instance, path).err = "ValidationError"
    THEN CheckTypeOptions(expected, i + 1, instance, path)
    ELSE _check_type(expected.items[i], instance, path)

NotOfType(expected, path) ==
    ValidationError(Message(_format_path(path) \o <<" ","i","s"," ","n","o","t"," ","o","f"," ","t","y","p","e"," ">>,
                            TRUE, expected, <<>>), path)

_check_type(expected, instance, path) ==
    IF expected.t = "list" THEN CheckTypeOptions(expected, 1, instance, path)
    ELSE IF ~Hashable(expected) THEN Crash("TypeError")
    ELSE IF expected \notin type_map THEN Ok
    ELSE IF expected = T_integer
    THEN (IF instance.t = "bool" \/ instance.t # "int" THEN NotOfType(expected, path) ELSE Ok)
    ELSE IF ~IsInstance(expected, instance) THEN NotOfType(expected, path)
    ELSE Ok

\* lines 94-96
TypeCheck(schema, instance, path) ==
    IF Get(schema, K_type, PyNone).t # "none"
    THEN _check_type(Get(schema, K_type, PyNone), instance, path)
    ELSE Ok

\* instance in container, for a list
PyIn(instance, container) == \E i \in DOMAIN container.items : PyEq(container.items[i], instance)

\* lines 98-103; enum is a list in every schema below
EnumCheck(schema, instance, path) ==
    IF DictHas(schema, K_enum) /\ ~PyIn(instance, DictGet(schema, K_enum))
    THEN ValidationError(Message(_format_path(path) \o <<" ","i","s"," ","n","o","t"," ","o","n","e"," ","o","f"," ">>,
                                 TRUE, DictGet(schema, K_enum), <<>>), path)
    ELSE Ok

\* lines 105-109
ConstCheck(schema, instance, path) ==
    IF DictHas(schema, K_const) /\ ~PyEq(instance, DictGet(schema, K_const))
    THEN ValidationError(Message(_format_path(path) \o <<" ","m","u","s","t"," ","e","q","u","a","l"," ">>,
                                 TRUE, DictGet(schema, K_const), <<>>), path)
    ELSE Ok

\* re.search(pattern, s) is not None, for a pattern of literal characters with
\* an optional "^" in front and an optional "$" behind, which is what every
\* pattern below is
ReSearch(pattern, s) ==
    LET front == pattern # <<>> /\ Head(pattern) = "^"
        p1 == IF front THEN Tail(pattern) ELSE pattern
        back == p1 # <<>> /\ p1[Len(p1)] = "$"
        lit == IF back THEN Slice(p1, 1, Len(p1) - 1) ELSE p1
    IN  \E k \in 1..(Len(s) - Len(lit) + 1) :
            /\ Slice(s, k, k + Len(lit) - 1) = lit
            /\ front => k = 1
            /\ back => k + Len(lit) - 1 = Len(s)

\* lines 111-116
PatternCheck(schema, instance, path) ==
    IF DictHas(schema, K_pattern) /\ instance.t = "str" /\ ~ReSearch(DictGet(schema, K_pattern).s, instance.s)
    THEN ValidationError(Message(_format_path(path) \o <<" ","d","o","e","s"," ","n","o","t"," ","m","a","t","c","h"," ","p","a","t","t","e","r","n"," ">>,
                                 TRUE, DictGet(schema, K_pattern), <<>>), path)
    ELSE Ok

\* int(v), for a number
Truncate(v) == IF v.n >= 0 THEN v.n \div Pow10(v.e) ELSE -((-v.n) \div Pow10(v.e))

\* lines 118-128; the lengths are numbers in every schema below
LengthCheck(schema, instance, path) ==
    IF instance.t # "str" THEN Ok
    ELSE IF Get(schema, K_minLength, PyNone).t # "none" /\ Len(instance.s) < Truncate(DictGet(schema, K_minLength))
    THEN ValidationError(Message(_format_path(path) \o <<" ","i","s"," ","s","h","o","r","t","e","r"," ","t","h","a","n"," ">>,
                                 TRUE, DictGet(schema, K_minLength), <<>>), path)
    ELSE IF Get(schema, K_maxLength, PyNone).t # "none" /\ Len(instance.s) > Truncate(DictGet(schema, K_maxLength))
    THEN ValidationError(Message(_format_path(path) \o <<" ","i","s"," ","l","o","n","g","e","r"," ","t","h","a","n"," ">>,
                                 TRUE, DictGet(schema, K_maxLength), <<>>), path)
    ELSE Ok

\* lines 130-152; the limits are numbers in every schema below
NumberCheck(schema, instance, path) ==
    IF instance.t \notin {"int", "float"} THEN Ok
    ELSE IF Get(schema, K_minimum, PyNone).t # "none" /\ NumLess(instance, DictGet(schema, K_minimum))
    THEN ValidationError(Message(_format_path(path) \o <<" ","i","s"," ","l","e","s","s"," ","t","h","a","n"," ">>,
                                 TRUE, DictGet(schema, K_minimum), <<>>), path)
    ELSE IF Get(schema, K_maximum, PyNone).t # "none" /\ NumLess(DictGet(schema, K_maximum), instance)
    THEN ValidationError(Message(_format_path(path) \o <<" ","i","s"," ","g","r","e","a","t","e","r"," ","t","h","a","n"," ">>,
                                 TRUE, DictGet(schema, K_maximum), <<>>), path)
    ELSE IF Get(schema, K_exclusiveMinimum, PyNone).t # "none" /\ ~NumLess(DictGet(schema, K_exclusiveMinimum), instance)
    THEN ValidationError(Message(_format_path(path) \o <<" ","m","u","s","t"," ","b","e"," ","g","r","e","a","t","e","r"," ","t","h","a","n"," ">>,
                                 TRUE, DictGet(schema, K_exclusiveMinimum), <<>>), path)
    ELSE IF Get(schema, K_exclusiveMaximum, PyNone).t # "none" /\ ~NumLess(instance, DictGet(schema, K_exclusiveMaximum))
    THEN ValidationError(Message(_format_path(path) \o <<" ","m","u","s","t"," ","b","e"," ","l","e","s","s"," ","t","h","a","n"," ">>,
                                 TRUE, DictGet(schema, K_exclusiveMaximum), <<>>), path)
    ELSE Ok

\* the recursion limit of the interpreter, counted in nested _validate_schema calls
MaxDepth == 8

\* the schema files next to the base location, with what yaml.safe_load
\* returns for the text of each; no other file exists
F_string == PyStr(<<"s","t","r","i","n","g",".","y","a","m","l">>)
F_empty == PyStr(<<"e","m","p","t","y",".","y","a","m","l">>)
F_bad == PyStr(<<"b","a","d",".","y","a","m","l">>)
F_missing == PyStr(<<"m","i","s","s","i","n","g",".","y","a","m","l">>)

FileExists(ref) == ref \in {F_string, F_empty, F_bad}

FileLoad(ref) ==
    CASE ref = F_string -> Returned(PyDict(<<K_type>>, <<T_string>>))
      [] ref = F_empty -> Returned(PyNone)
      [] ref = F_bad -> Raise("YAMLError")

\* RefResolver.resolve, with root the referrer: the schema, or the exception in fail
resolve(root, ref) ==
    IF StartsWith(ref.s, <<"#">>) THEN [err |-> "none", val |-> root, fail |-> Ok]
    ELSE IF ~FileExists(ref)
    THEN [err |-> "ValidationError", val |-> PyNone,
          fail |-> ValidationError(Message(<<"R","e","f","e","r","e","n","c","e"," ","t","a","r","g","e","t"," ","n","o","t"," ","f","o","u","n","d",":"," ">>,
                                           TRUE, ref, <<>>), <<>>)]
    ELSE IF FileLoad(ref).err # "none"
    THEN [err |-> FileLoad(ref).err, val |-> PyNone, fail |-> Crash(FileLoad(ref).err)]
    ELSE [err |-> "none", val |-> OrEmpty(FileLoad(ref).val), fail |-> Ok]

RECURSIVE _validate_schema(_, _, _, _, _)

\* the indices of the required keys that the instance lacks
MissingRequiredNone(required, instance) == {}
MissingRequired(required, instance) ==
    {i \in DOMAIN required.items : ~DictHas(instance, required.items[i])}

\* _validate_object, lines 167-173; missing: the indices of the absent keys
RequiredCheck(required, missing, path) ==
    IF missing = {} THEN Ok
    ELSE ValidationError(
            Plain(_format_path(Append(path, required.items[Min(missing)]))
                  \o <<" ","i","s"," ","a"," ","r","e","q","u","i","r","e","d"," ","p","r","o","p","e","r","t","y">>),
            Append(path, required.items[Min(missing)]))

\* _validate_object, lines 175-178
PropertiesCheck(root, properties, instance, path, depth) ==
    FirstFailure([i \in DOMAIN properties.keys |->
        IF DictHas(instance, properties.keys[i])
        THEN _validate_schema(root, OrEmpty(properties.items[i]), DictGet(instance, properties.keys[i]),
                              Append(path, properties.keys[i]), depth + 1)
        ELSE Ok])

\* the indices of the keys of the instance that properties does not name
AdditionalKeys(properties, instance) ==
    {i \in DOMAIN instance.keys : ~DictHas(properties, instance.keys[i])}

\* _validate_object, lines 180-191
AdditionalCheck(root, additional, properties, instance, path, depth) ==
    IF additional = PyFalse /\ ~Falsy(properties)
    THEN IF AdditionalKeys(properties, instance) = {} THEN Ok
         ELSE ValidationError(
                Message(<<"U","n","e","x","p","e","c","t","e","d"," ","p","r","o","p","e","r","t","y"," ">>,
                        TRUE, instance.keys[Min(AdditionalKeys(properties, instance))],
                        <<" ","a","t"," ">> \o _format_path(path)),
                Append(path, instance.keys[Min(AdditionalKeys(properties, instance))]))
    ELSE IF additional.t = "dict"
    THEN FirstFailure([i \in DOMAIN instance.keys |->
            IF i \in AdditionalKeys(properties, instance)
            THEN _validate_schema(root, additional, instance.items[i], Append(path, instance.keys[i]), depth + 1)
            ELSE Ok])
    ELSE Ok

_validate_object(root, schema, instance, path, depth) ==
    FirstFailure(<<
        RequiredCheck(Get(schema, K_required, PyList(<<>>)),
                      MissingRequired(Get(schema, K_required, PyList(<<>>)), instance), path),
        PropertiesCheck(root, Get(schema, K_properties, PyDict(<<>>, <<>>)), instance, path, depth),
        AdditionalCheck(root, Get(schema, K_additionalProperties, PyNone),
                        Get(schema, K_properties, PyDict(<<>>, <<>>)), instance, path, depth) >>)

\* _validate_array, lines 196-205; the limits are numbers in every schema below
ItemCountCheck(schema, instance, path) ==
    IF Get(schema, K_minItems, PyNone).t # "none" /\ Len(instance.items) < Truncate(DictGet(schema, K_minItems))
    THEN ValidationError(Message(_format_path(path) \o <<" ","h","a","s"," ","f","e","w","e","r"," ","t","h","a","n"," ">>,
                                 TRUE, DictGet(schema, K_minItems), <<" ","i","t","e","m","s">>), path)
    ELSE IF Get(schema, K_maxItems, PyNone).t # "none" /\ Len(instance.items) > Truncate(DictGet(schema, K_maxItems))
    THEN ValidationError(Message(_format_path(path) \o <<" ","h","a","s"," ","m","o","r","e"," ","t","h","a","n"," ">>,
                                 TRUE, DictGet(schema, K_maxItems), <<" ","i","t","e","m","s">>), path)
    ELSE Ok

\* _validate_array, lines 207-213: the element at idx is checked against
\* items[idx] of a list that reaches it, and against a dict
ItemsCheck(root, items, instance, path, depth) ==
    FirstFailure([i \in DOMAIN instance.items |->
        IF items.t = "list" /\ i <= Len(items.items)
        THEN _validate_schema(root, OrEmpty(items.items[i]), instance.items[i], Append(path, PyInt(i - 1)), depth + 1)
        ELSE IF items.t = "dict"
        THEN _validate_schema(root, items, instance.items[i], Append(path, PyInt(i - 1)), depth + 1)
        ELSE Ok])

\* the elements before the counts
_validate_array_items_first(root, schema, instance, path, depth) ==
    FirstFailure(<<
        ItemsCheck(root, Get(schema, K_items, PyNone), instance, path, depth),
        ItemCountCheck(schema, instance, path) >>)
_validate_array(root, schema, instance, path, depth) ==
    FirstFailure(<<
        ItemCountCheck(schema, instance, path),
        ItemsCheck(root, Get(schema, K_items, PyNone), instance, path, depth) >>)

\* _validate_composition, lines 222-228: one outcome per sub-schema
CompositionResults(root, subschemas, instance, path, depth) ==
    [i \in DOMAIN subschemas.items |->
        _validate_schema(root, OrEmpty(subschemas.items[i]), instance, path, depth + 1)]

\* _validate_composition, lines 229-234: the keyword rejects these results
CompositionFailsAsAnyOf(keyword, results) ==
    IF keyword = K_allOf THEN \E i \in DOMAIN results : results[i].err # "none"
    ELSE \A i \in DOMAIN results : results[i].err # "none"
CompositionFails(keyword, results) ==
    IF keyword = K_allOf THEN \E i \in DOMAIN results : results[i].err # "none"
    ELSE IF keyword = K_anyOf THEN \A i \in DOMAIN results : results[i].err # "none"
    ELSE Cardinality({i \in DOMAIN results : results[i].err = "none"}) # 1

\* an exception that is no ValidationError leaves the loop at once
_validate_composition_unswallowed(keyword, results, path) ==
    IF \E i \in DOMAIN results : results[i].err # "none"
    THEN results[Min({i \in DOMAIN results : results[i].err # "none"})]
    ELSE Ok
_validate_composition(keyword, results, path) ==
    IF \E i \in DOMAIN results : results[i].err \notin {"none", "ValidationError"}
    THEN results[Min({i \in DOMAIN results : results[i].err \notin {"none", "ValidationError"}})]
    ELSE IF CompositionFails(keyword, results)
    THEN ValidationError(Plain(_format_path(path) \o <<" ","f","a","i","l","e","d"," ">> \o keyword.s), path)
    ELSE Ok

\* lines 160-162, for one keyword
CompositionCheck(root, schema, keyword, instance, path, depth) ==
    IF DictHas(schema, keyword)
    THEN _validate_composition(keyword,
                               CompositionResults(root, DictGet(schema, keyword), instance, path, depth),
                               path)
    ELSE Ok

\* "$ref" in schema
HasRefAlone(schema) == DictHas(schema, K_ref) /\ Len(schema.keys) = 1
HasRef(schema) == DictHas(schema, K_ref)

\* lines 90-92, with r what the resolver gave
ValidateResolved(root, r, instance, path, depth) ==
    IF r.err # "none" THEN r.fail ELSE _validate_schema(root, r.val, instance, path, depth + 1)

_validate_schema(root, schema, instance, path, depth) ==
    IF depth > MaxDepth THEN Crash("RecursionError")
    ELSE IF HasRef(schema)
    THEN ValidateResolved(root, resolve(root, DictGet(schema, K_ref)), instance, path, depth)
    ELSE FirstFailure(<<
        TypeCheck(schema, instance, path),
        EnumCheck(schema, instance, path),
        ConstCheck(schema, instance, path),
        PatternCheck(schema, instance, path),
        LengthCheck(schema, instance, path),
        NumberCheck(schema, instance, path),
        IF instance.t = "dict" THEN _validate_object(root, schema, instance, path, depth) ELSE Ok,
        IF instance.t = "list" THEN _validate_array(root, schema, instance, path, depth) ELSE Ok,
        CompositionCheck(root, schema, K_allOf, instance, path, depth),
        CompositionCheck(root, schema, K_anyOf, instance, path, depth),
        CompositionCheck(root, schema, K_oneOf, instance, path, depth) >>)

\* Draft202012Validator(schema).validate(instance): the resolver's referrer is the schema
validate(schema, instance) == _validate_schema(OrEmpty(schema), OrEmpty(schema), instance, <<>>, 1)

(***************************************************************************)
(* SpecValidate: validate applied to one schema and one instance.  The     *)
(* schema holds one node of interest (call.node), at the root, under a     *)
(* property or as the items schema; call.sub is the part of the instance   *)
(* that meets it.                                                          *)
(***************************************************************************)
MaxSubschemas == 2
MaxTypes == 2

S_name == PyStr(<<"n","a","m","e">>)
S_id == PyStr(<<"i","d">>)
S_spec == PyStr(<<"s","p","e","c">>)
S_a == PyStr(<<"a">>)
S_foo == PyStr(<<"f","o","o">>)
S_hash == PyStr(<<"#">>)
S_pointer == PyStr(<<"#","/","d","e","f","i","n","i","t","i","o","n","s","/","x">>)
S_uri == PyStr(<<"h","t","t","p","s",":","/","/","e","x","a","m","p","l","e",".","c","o","m","/","s",".","y","a","m","l">>)

\* no such key
Absent == PyValue("absent", 0, 0, <<>>, <<>>, <<>>)

RECURSIVE Node(_)
\* the dict of the pairs whose value is not Absent
Node(pairs) ==
    IF pairs = <<>> THEN PyDict(<<>>, <<>>)
    ELSE IF pairs[Len(pairs)][2] = Absent THEN Node(Slice(pairs, 1, Len(pairs) - 1))
    ELSE DictSet(Node(Slice(pairs, 1, Len(pairs) - 1)), pairs[Len(pairs)][1], pairs[Len(pairs)][2])

Instances ==
    { PyNone, PyTrue, PyFalse, PyInt(1), PyFloat(15, 1), S_a, PyStr(<<>>),
      PyList(<<>>), PyList(<<S_a>>),
      PyList(<<PyInt(1), PyInt(2), PyInt(3)>>), PyList(<<S_a, PyInt(1), PyInt(2)>>),
      PyDict(<<>>, <<>>),
      PyDict(<<S_name>>, <<S_a>>),
      PyDict(<<S_name>>, <<PyInt(1)>>),
      PyDict(<<S_id>>, <<PyInt(1)>>),
      PyDict(<<S_id, S_name>>, <<PyInt(1), S_a>>) }

TypeLists == {PyList(ts) : ts \in UNION {[1..k -> {T_integer, T_number, T_string, T_boolean, T_null}] : k \in 0..MaxTypes}}

TypeNodes == {Node(<< <<K_type, t>> >>) : t \in type_map \cup {S_foo} \cup TypeLists}

ObjectNodes ==
    { Node(<< <<K_ref, r>>, <<K_type, t>>, <<K_enum, e>>, <<K_const, c>>, <<K_required, q>>, <<K_properties, p>> >>) :
        r \in {Absent, F_empty},
        t \in {Absent, T_object, T_string},
        e \in {Absent, PyList(<<PyInt(1)>>)},
        c \in {Absent, PyInt(1)},
        q \in {PyList(<<S_name>>), PyList(<<S_id, S_name>>), PyList(<<>>)},
        p \in {Absent, PyDict(<<S_name>>, <<PyDict(<<K_type>>, <<T_string>>)>>)} }

SubSchemas ==
    { PyNone, PyDict(<<>>, <<>>),
      PyDict(<<K_type>>, <<T_string>>), PyDict(<<K_type>>, <<T_integer>>), PyDict(<<K_type>>, <<T_boolean>>),
      PyDict(<<K_required>>, <<PyList(<<S_name>>)>>) }

CompositionNodes ==
    { Node(<< <<k, PyList(subs)>> >>) :
        k \in {K_allOf, K_anyOf, K_oneOf},
        subs \in UNION {[1..n -> SubSchemas] : n \in 0..MaxSubschemas} }

RefNodes ==
    { Node(<< <<K_ref, r>>, s >>) :
        r \in {S_hash, S_pointer, S_uri, F_string, F_empty, F_missing, F_bad},
        s \in { <<K_type, Absent>>, <<K_type, T_integer>>, <<K_type, T_string>>,
                <<K_required, PyList(<<S_name>>)>>, <<K_enum, PyList(<<PyInt(1)>>)>>,
                <<K_const, S_a>>, <<K_allOf, PyList(<<PyDict(<<K_type>>, <<T_string>>)>>)>>,
                <<K_anyOf, PyList(<<>>)>> } }

OtherNodes ==
    { PyDict(<<K_pattern>>, <<PyStr(<<"^","a">>)>>),
      PyDict(<<K_minLength>>, <<PyInt(1)>>), PyDict(<<K_maxLength>>, <<PyInt(0)>>),
      PyDict(<<K_minimum>>, <<PyInt(1)>>), PyDict(<<K_maximum>>, <<PyInt(1)>>),
      PyDict(<<K_exclusiveMinimum>>, <<PyInt(1)>>), PyDict(<<K_exclusiveMaximum>>, <<PyInt(1)>>),
      PyDict(<<K_minItems>>, <<PyInt(1)>>), PyDict(<<K_maxItems>>, <<PyInt(0)>>),
      PyDict(<<K_items>>, <<PyDict(<<K_type>>, <<T_string>>)>>),
      PyDict(<<K_items>>, <<PyList(<<PyDict(<<K_type>>, <<T_integer>>)>>)>>),
      PyDict(<<K_additionalProperties, K_properties>>, <<PyFalse, PyDict(<<S_name>>, <<PyDict(<<>>, <<>>)>>)>>),
      PyDict(<<K_additionalProperties>>, <<PyFalse>>),
      PyDict(<<K_additionalProperties, K_properties>>, <<PyFalse, PyDict(<<>>, <<>>)>>),
      PyDict(<<K_additionalProperties>>, <<PyDict(<<K_type>>, <<T_string>>)>>) }

ArrayNodes ==
    { Node(<< <<K_ref, r>>, <<K_type, t>>, <<K_const, c>>, <<K_items, i>>, <<K_minItems, lo>>, <<K_maxItems, hi>> >>) :
        r \in {Absent, F_empty},
        t \in {Absent, T_array, T_string},
        c \in {Absent, PyList(<<PyInt(1), PyInt(2)>>)},
        i \in {Absent, PyDict(<<K_type>>, <<T_integer>>), PyDict(<<K_type>>, <<T_string>>),
               PyList(<<PyDict(<<K_type>>, <<T_integer>>)>>)},
        lo \in {Absent, PyInt(1), PyInt(4)},
        hi \in {Absent, PyInt(0), PyInt(2)} }

\* {type: number} with one range keyword whose limit refuses both 0 and 1
RangeLimits ==
    { <<K_minimum, PyInt(5)>>, <<K_exclusiveMinimum, PyInt(5)>>,
      <<K_maximum, PyInt(-1)>>, <<K_exclusiveMaximum, PyInt(-1)>> }

RangeNodes == {Node(<< <<K_type, T_number>>, kv >>) : kv \in RangeLimits}

Nodes == TypeNodes \cup ObjectNodes \cup CompositionNodes \cup RefNodes \cup ArrayNodes \cup OtherNodes
            \cup RangeNodes

Positions == {"root", "property", "item"}

\* the schema that holds node at the position, and the instance that holds sub there
Wrap(node, at) ==
    CASE at = "root" -> node
      [] at = "property" -> PyDict(<<K_properties>>, <<PyDict(<<S_spec>>, <<node>>)>>)
      [] at = "item" -> PyDict(<<K_items>>, <<node>>)

WrapInstance(sub, at) ==
    CASE at = "root" -> sub
      [] at = "property" -> PyDict(<<S_spec>>, <<sub>>)
      [] at = "item" -> PyList(<<sub>>)

PendingOutcome == [err |-> "pending", msg |-> <<>>, path |-> <<>>]

InitValidate ==
    /\ call \in {[fn |-> "validate", schema |-> Wrap(n, at), instance |-> WrapInstance(i, at),
                  node |-> n, sub |-> i, at |-> at] : n \in Nodes, i \in Instances, at \in Positions}
    /\ result = PendingOutcome
    /\ ParserIdle

CallValidate ==
    /\ call.fn = "validate"
    /\ result.err = "pending"
    /\ result' = validate(call.schema, call.instance)
    /\ UNCHANGED <<call, parserVars>>

NextValidate == CallValidate

SpecValidate == InitValidate /\ [][NextValidate]_vars

(***************************************************************************)
(* Properties of validate                                                  *)
(***************************************************************************)
ValidateDone == call.fn = "validate" /\ result.err # "pending"

\* the path of call.sub in the instance, and the depth of call.node in the schema
NodePath ==
    CASE call.at = "root" -> <<>>
      [] call.at = "property" -> <<S_spec>>
      [] call.at = "item" -> <<PyInt(0)>>

NodeDepth == IF call.at = "root" THEN 1 ELSE 2

\* the listed keys that the object lacks, as indices into required
AbsentKeys ==
    {i \in DOMAIN DictGet(call.node, K_required).items :
        \A j \in DOMAIN call.sub.keys : ~PyEq(call.sub.keys[j], DictGet(call.node, K_required).items[i])}

\* a mapping met a node with required, and lacks a listed key
RequiredCase ==
    /\ ValidateDone
    /\ call.sub.t = "dict"
    /\ DictHas(call.node, K_required)
    /\ AbsentKeys # {}

IsRequiredProperty == <<" ","i","s"," ","a"," ","r","e","q","u","i","r","e","d"," ","p","r","o","p","e","r","t","y">>

\* the error that reports the listed key at index i
RequiredError(i) ==
    ValidationError(
        Plain(_format_path(Append(NodePath, DictGet(call.node, K_required).items[i])) \o IsRequiredProperty),
        Append(NodePath, DictGet(call.node, K_required).items[i]))

\* C7, as stated: whenever a mapping lacks a key that the schema lists under
\* required, validate fails with the object's path plus the missing key as
\* path and "<rendered path> is a required property" as message.
C7_RequiredAlwaysReported ==
    RequiredCase => \E i \in AbsentKeys : result = RequiredError(i)

\* type, enum and const of the node, which come before required, accept the object
EarlierKeywordsAccept ==
    /\ TypeCheck(call.node, call.sub, NodePath).err = "none"
    /\ EnumCheck(call.node, call.sub, NodePath).err = "none"
    /\ ConstCheck(call.node, call.sub, NodePath).err = "none"

\* C7, amended: when the node has no "$ref", a mapping that lacks a listed key
\* makes validate fail with a ValidationError; when moreover type, enum and
\* const of the node accept the mapping, the error is the one of the first
\* listed key that is absent: path of the object plus that key, message
\* "<rendered path> is a required property".
C7_RequiredReportedUnlessRef ==
    (RequiredCase /\ ~DictHas(call.node, K_ref)) =>
        /\ result.err = "ValidationError"
        /\ EarlierKeywordsAccept => result = RequiredError(Min(AbsentKeys))

\* {type: object, required: [name], properties: {name: {type: string}}}
\* against {} fails at instance.name
C7_Witness ==
    /\ RequiredCase
    /\ call.at = "root"
    /\ call.node = PyDict(<<K_type, K_required, K_properties>>,
                          <<T_object, PyList(<<S_name>>), PyDict(<<S_name>>, <<PyDict(<<K_type>>, <<T_string>>)>>)>>)
    /\ call.sub = PyDict(<<>>, <<>>)
    /\ result = ValidationError(Plain(<<"i","n","s","t","a","n","c","e",".","n","a","m","e">> \o IsRequiredProperty), <<S_name>>)

\* the node is one composition keyword over a list of sub-schemas
CompositionCase ==
    /\ ValidateDone
    /\ Len(call.node.keys) = 1
    /\ call.node.keys[1] \in {K_allOf, K_anyOf, K_oneOf}

\* the sub-schemas of the node that validate the instance on their own
Passing ==
    {i \in DOMAIN call.node.items[1].items :
        _validate_schema(OrEmpty(call.schema), OrEmpty(call.node.items[1].items[i]),
                         call.sub, NodePath, 1).err = "none"}

\* C8: allOf passes iff every sub-schema validates the instance, anyOf iff at
\* least one does, oneOf iff exactly one does.
C8_CompositionCounts ==
    CompositionCase =>
        (result.err = "none" <=>
            CASE call.node.keys[1] = K_allOf -> Passing = DOMAIN call.node.items[1].items
              [] call.node.keys[1] = K_anyOf -> Passing # {}
              [] call.node.keys[1] = K_oneOf -> Cardinality(Passing) = 1)

\* {oneOf: [{type: string}, {type: integer}]} against True fails
C8_Witness ==
    /\ CompositionCase
    /\ call.at = "root"
    /\ call.node = PyDict(<<K_oneOf>>, <<PyList(<<PyDict(<<K_type>>, <<T_string>>), PyDict(<<K_type>>, <<T_integer>>)>>)>>)
    /\ call.sub = PyTrue
    /\ result = ValidationError(Plain(<<"i","n","s","t","a","n","c","e"," ","f","a","i","l","e","d"," ","o","n","e","O","f">>), <<>>)

\* the kind of the value is the one the type name stands for
KindMatches(name, v) ==
    CASE name = T_object -> v.t = "dict"
      [] name = T_array -> v.t = "list"
      [] name = T_string -> v.t = "str"
      [] name = T_integer -> v.t = "int"
      [] name = T_number -> v.t \in {"int", "float"}
      [] name = T_boolean -> v.t = "bool"
      [] name = T_null -> v.t = "none"

\* the names under type: the single one, or the listed ones
TypeNames == IF call.node.items[1].t = "list" THEN {call.node.items[1].items[i] : i \in DOMAIN call.node.items[1].items}
             ELSE {call.node.items[1]}

\* the node is the type keyword alone, over the seven names of the type table
TypeCase ==
    /\ ValidateDone
    /\ call.node.keys = <<K_type>>
    /\ TypeNames \subseteq {T_object, T_array, T_string, T_integer, T_number, T_boolean, T_null}

\* C9: type accepts the instance iff its kind matches the named type, or one of
\* the listed names; a Bool is of kind boolean only.
C9_TypeAcceptsMatchingKind ==
    TypeCase => (result.err = "none" <=> \E name \in TypeNames : KindMatches(name, call.sub))

\* {type: number} against True
C9_Witness ==
    /\ TypeCase
    /\ call.at = "root"
    /\ call.node = PyDict(<<K_type>>, <<T_number>>)
    /\ call.sub = PyTrue
    /\ result = Ok

RefCase == ValidateDone /\ DictHas(call.node, K_ref)

\* the node with every keyword but "$ref" taken away
RefOnly == PyDict(<<K_ref>>, <<DictGet(call.node, K_ref)>>)

\* C10: for a node with "$ref" the outcome is that of validating the instance
\* at the same path against the resolved schema alone, and the other keywords
\* of the node change nothing: without them the outcome is the same.
C10_RefAloneDecides ==
    RefCase =>
        /\ result = ValidateResolved(OrEmpty(call.schema), resolve(OrEmpty(call.schema), DictGet(call.node, K_ref)),
                                     call.sub, NodePath, NodeDepth)
        /\ result = validate(Wrap(RefOnly, call.at), call.instance)

\* {"$ref": string.yaml, type: integer} against 1 fails: the resolved schema
\* asks for a string, and the sibling type that would take 1 is not consulted
C10_Witness ==
    /\ RefCase
    /\ call.node = PyDict(<<K_ref, K_type>>, <<F_string, T_integer>>)
    /\ call.sub = PyInt(1)
    /\ result.err = "ValidationError"
    /\ result.path = NodePath

\* the keys of the object that properties of the node does not name, as indices
ExtraKeys ==
    {i \in DOMAIN call.sub.keys :
        \A j \in DOMAIN Get(call.node, K_properties, PyDict(<<>>, <<>>)).keys :
            ~PyEq(Get(call.node, K_properties, PyDict(<<>>, <<>>)).keys[j], call.sub.keys[i])}

\* a mapping met a node without "$ref" whose additionalProperties is false,
\* and holds a key that properties does not name
AdditionalCase ==
    /\ ValidateDone
    /\ call.sub.t = "dict"
    /\ ~DictHas(call.node, K_ref)
    /\ Get(call.node, K_additionalProperties, PyNone) = PyFalse
    /\ ExtraKeys # {}

\* C11: with additionalProperties false, validate fails for every mapping that
\* has a key absent from properties, also when properties is missing or empty.
C11_AdditionalForbidden ==
    AdditionalCase => result.err = "ValidationError"

\* {additionalProperties: false} against {name: "a"} is accepted
C11_Witness ==
    /\ AdditionalCase
    /\ call.at = "root"
    /\ call.node = PyDict(<<K_additionalProperties>>, <<PyFalse>>)
    /\ call.sub = PyDict(<<S_name>>, <<S_a>>)
    /\ result = Ok

\* an array met a node with maxItems, passes the node's type and is longer
\* than maxItems allows
ArrayCase ==
    /\ ValidateDone
    /\ call.sub.t = "list"
    /\ Get(call.node, K_maxItems, PyNone).t # "none"
    /\ Len(call.sub.items) > Truncate(Get(call.node, K_maxItems, PyInt(0)))
    /\ TypeCheck(call.node, call.sub, NodePath).err = "none"

HasMoreThan == <<" ","h","a","s"," ","m","o","r","e"," ","t","h","a","n"," ">>

MaxItemsError ==
    ValidationError(
        Message(_format_path(NodePath) \o HasMoreThan, TRUE, Get(call.node, K_maxItems, PyNone), <<" ","i","t","e","m","s">>),
        NodePath)

\* C12, as stated: an array that passes type but exceeds maxItems always fails
\* with the maxItems error at the array's own path, whatever its elements are.
C12_MaxItemsAlwaysReported ==
    ArrayCase => result = MaxItemsError

\* the checks that come before maxItems on the node find nothing: there is no
\* "$ref", enum and const accept the array, and it is not shorter than minItems
BeforeMaxItemsAccept ==
    /\ ~DictHas(call.node, K_ref)
    /\ EnumCheck(call.node, call.sub, NodePath).err = "none"
    /\ ConstCheck(call.node, call.sub, NodePath).err = "none"
    /\ Get(call.node, K_minItems, PyNone).t # "none" => Len(call.sub.items) >= Truncate(Get(call.node, K_minItems, PyInt(0)))

\* C12, amended: when the keywords checked before maxItems accept the array,
\* an array longer than maxItems fails with the maxItems error at the array's
\* own path, whether or not its elements satisfy items.
C12_MaxItemsBeforeItems ==
    (ArrayCase /\ BeforeMaxItemsAccept) => result = MaxItemsError

\* {type: array, items: {type: integer}, maxItems: 2} against [1, 2, 3] fails on maxItems
C12_Witness ==
    /\ ArrayCase
    /\ call.at = "root"
    /\ call.node = PyDict(<<K_type, K_items, K_maxItems>>, <<T_array, PyDict(<<K_type>>, <<T_integer>>), PyInt(2)>>)
    /\ call.sub = PyList(<<PyInt(1), PyInt(2), PyInt(3)>>)
    /\ result = ValidationError(
                    Message(<<"i","n","s","t","a","n","c","e">> \o HasMoreThan, TRUE, PyInt(2), <<" ","i","t","e","m","s">>),
                    <<>>)

\* the reference is of a form the resolver does not support: a network URI,
\* or a fragment that is more than the whole-document "#"
Unsupported(ref) ==
    \/ \E i \in DOMAIN ref.s : i + 2 <= Len(ref.s) /\ Slice(ref.s, i, i + 2) = <<":","/","/">>
    \/ StartsWith(ref.s, <<"#">>) /\ ref.s # <<"#">>

UnsupportedCase == RefCase /\ Unsupported(DictGet(call.node, K_ref))

ReferenceNotFound == <<"R","e","f","e","r","e","n","c","e"," ","t","a","r","g","e","t"," ","n","o","t"," ","f","o","u","n","d",":"," ">>

\* C13: for every unsupported reference form resolve fails with a reference
\* error, which is then what validate fails with; no schema is put in its place.
C13_UnsupportedRefsFail ==
    UnsupportedCase =>
        /\ resolve(OrEmpty(call.schema), DictGet(call.node, K_ref)).err = "ValidationError"
        /\ result = ValidationError(Message(ReferenceNotFound, TRUE, DictGet(call.node, K_ref), <<>>), <<>>)

\* {properties: {spec: {"$ref": "#/definitions/x"}}} against {spec: 1}: the
\* whole schema stands in for the fragment and accepts 1
C13_Witness ==
    /\ UnsupportedCase
    /\ call.at = "property"
    /\ call.node = PyDict(<<K_ref>>, <<S_pointer>>)
    /\ call.sub = PyInt(1)
    /\ resolve(OrEmpty(call.schema), S_pointer).val = call.schema
    /\ result = Ok

\* a network URI is looked up as a file next to the base, is not found, and fails
C13_UriFails ==
    (UnsupportedCase /\ DictGet(call.node, K_ref) = S_uri) =>
        result = ValidationError(Message(ReferenceNotFound, TRUE, S_uri, <<>>), <<>>)

\* C14: every validate call ends in success or in an error of the validator's
\* or the parser's own kind; unbounded recursion is cut by a depth limit that
\* fails with such an error, never by the exhaustion of the call stack.
C14_DepthLimitFailsPredictably ==
    ValidateDone => result.err \in {"none", "ValidationError", "YAMLError"}

\* {"$ref": "#"} against 1: the reference resolves to the schema that holds it,
\* and the calls nest until the interpreter gives up
C14_Witness ==
    /\ ValidateDone
    /\ call.at = "root"
    /\ call.node = PyDict(<<K_ref>>, <<S_hash>>)
    /\ call.sub = PyInt(1)
    /\ result = Crash("RecursionError")

(***************************************************************************)
(* C15: inline flow collections in a value position.                       *)
(***************************************************************************)
\* keys written without quotes
PlainKeys == { <<"f","o","o">>, <<"b">> }

PlainEntrySeqs == UNION {[1..n -> PlainKeys \X FlowValues] : n \in 1..MaxEntries}

RECURSIVE FlowMapping(_)
\* the mapping that the entries ps stand for: each key a String, each value
\* the scalar that its text stands for
FlowMapping(ps) ==
    IF ps = <<>> THEN PyDict(<<>>, <<>>)
    ELSE DictSet(FlowMapping(Slice(ps, 1, Len(ps) - 1)),
                 PyStr(ps[Len(ps)][1]), _parse_scalar(ps[Len(ps)][2], FALSE).val)

\* the sequence that the element texts vs stand for
FlowSequence(vs) == PyList([i \in DOMAIN vs |-> _parse_scalar(vs[i], FALSE).val])

\* C15: brace-delimited text whose entries are simple scalars with unquoted
\* keys, such as {foo: 1}, is parsed as the inline flow mapping of its entries.
C15_BraceTextIsFlowMapping ==
    \A ps \in PlainEntrySeqs :
        (ScalarCallDone /\ call.raw = Brace(ps)) => result = Returned(FlowMapping(ps))

\* {foo: 1} raises YAMLError
C15_Witness ==
    /\ ScalarCallDone
    /\ call.raw = Brace(<< <<(<<"f","o","o">>), (<<"1">>)>> >>)
    /\ call.raw = <<"{","f","o","o",":"," ","1","}">>
    /\ result = Raise("YAMLError")

\* bracket-delimited text is parsed as the inline flow sequence of its elements
C15_BracketTextIsFlowSequence ==
    \A vs \in UNION {[1..n -> FlowValues] : n \in 0..MaxEntries} :
        (ScalarCallDone /\ call.raw = Bracket(vs)) => result = Returned(FlowSequence(vs))

(***************************************************************************)
(* C16-C19: the body of a block scalar                                     *)
(***************************************************************************)
\* empty or whitespace-only
IsBlank(line) == \A j \in DOMAIN line : line[j] \in Whitespace

\* the lines after the indicator line
Followers == Slice(call.lines, call.index + 2, Len(call.lines))

\* the first follower that is non-blank and indented at or below the key's
\* indent; one past the last follower when there is none
DedentAt ==
    Min({i \in DOMAIN Followers : ~IsBlank(Followers[i]) /\ LineIndent(Followers[i]) <= call.base_indent}
        \cup {Len(Followers) + 1})

\* follower i is a blank line with body lines before and after it, before the dedent
BlankInside(i) ==
    /\ IsBlank(Followers[i])
    /\ \E j \in 1..(i - 1) : ~IsBlank(Followers[j])
    /\ \E k \in (i + 1)..(DedentAt - 1) : ~IsBlank(Followers[k])

\* C16: a blank line (empty or whitespace-only) that lies between two
\* more-indented body lines is part of the body and does not end the block.
C16_BlankLineInsideBody ==
    BlockCallDone => \A i \in DOMAIN Followers : BlankInside(i) => i <= Len(CapturedBody)

\* t: | followed by "  a", "", "  b": the body stops at the empty line
C16_Witness ==
    /\ BlockCallDone
    /\ call.lines = << <<"t",":"," ","|">>, <<" "," ","a">>, <<>>, <<" "," ","b">> >>
    /\ CapturedBody = << <<" "," ","a">> >>
    /\ result.val = PyStr(<<"a","\n">>)

\* the indents of the non-blank captured lines
CapturedIndents == {LineIndent(CapturedBody[i]) : i \in {j \in DOMAIN CapturedBody : ~IsBlank(CapturedBody[j])}}

\* C17: every non-blank line captured into the body is indented strictly more
\* than the key's line, so the strip column is above the key's indent; a line
\* at or below it, such as a comment line, is never captured.
C17_BodyIndentedBeyondKey ==
    BlockCallDone => \A n \in CapturedIndents : n > call.base_indent

\* t: | followed by "  a", "# c": the comment line is captured and the strip
\* column is 0, so "  a" keeps its indentation
C17_Witness ==
    /\ BlockCallDone
    /\ call.lines = << <<"t",":"," ","|">>, <<" "," ","a">>, <<"#"," ","c">> >>
    /\ CapturedBody = << <<" "," ","a">>, <<"#"," ","c">> >>
    /\ BlockMinIndent(CapturedBody, call.base_indent) = 0
    /\ result.val = PyStr(<<" "," ","a","\n","#"," ","c","\n">>)

\* the indicator strips: |- or >-
StripCase == BlockCallDone /\ call.indicator \in {<<"|","-">>, <<">","-">>}

\* C18: with the - chomping indicator the result never ends with a newline,
\* whatever the captured body is.
C18_StripLeavesNoNewline ==
    StripCase => (result.val.s = <<>> \/ result.val.s[Len(result.val.s)] # "\n")

\* t: |- followed by "  a", "   ": the whitespace-only line is captured as an
\* empty last line, and the newline that joins it to "a" ends the result
C18_Witness ==
    /\ StripCase
    /\ call.lines = << <<"t",":"," ","|","-">>, <<" "," ","a">>, <<" "," "," ">> >>
    /\ CapturedBody = << <<" "," ","a">>, <<" "," "," ">> >>
    /\ result.val = PyStr(<<"a","\n">>)

RECURSIVE RunLength(_)
\* the number of non-blank lines that body starts with
RunLength(body) ==
    IF body = <<>> \/ IsBlank(Head(body)) THEN 0 ELSE 1 + RunLength(Tail(body))

RECURSIVE Paragraphs(_, _)
\* the paragraphs of a body, blank lines between them: each the lines of a run
\* of non-blank lines, cut at the column, joined with one space
Paragraphs(body, column) ==
    IF body = <<>> THEN <<>>
    ELSE IF IsBlank(Head(body)) THEN Paragraphs(Tail(body), column)
    ELSE <<JoinWith([i \in 1..RunLength(body) |-> Slice(body[i], column + 1, Len(body[i]))], <<" ">>)>>
            \o Paragraphs(Slice(body, RunLength(body) + 1, Len(body)), column)

\* a folded block whose body starts and ends with a non-blank line
FoldedCase ==
    /\ BlockCallDone
    /\ call.indicator \in {<<">">>, <<">","-">>, <<">","+">>}
    /\ CapturedBody # <<>>
    /\ ~IsBlank(CapturedBody[1])
    /\ ~IsBlank(CapturedBody[Len(CapturedBody)])

\* C19: in a folded block consecutive non-blank lines are joined with one
\* space, and a blank line between two non-blank lines shows in the result as
\* a single newline between the two paragraphs.
C19_FoldedParagraphs ==
    FoldedCase =>
        result.val = PyStr(JoinWith(Paragraphs(CapturedBody, Min(CapturedIndents)), <<"\n">>)
                           \o (IF call.indicator = <<">","-">> THEN <<>> ELSE <<"\n">>))

\* t: > followed by "  a", "   ", "  b" gives "a\n\nb\n": two newlines between
\* the paragraphs
C19_Witness ==
    /\ FoldedCase
    /\ call.lines = << <<"t",":"," ",">">>, <<" "," ","a">>, <<" "," "," ">>, <<" "," ","b">> >>
    /\ CapturedBody = << <<" "," ","a">>, <<" "," "," ">>, <<" "," ","b">> >>
    /\ result.val = PyStr(<<"a","\n","\n","b","\n">>)

\* without a blank line in the body the lines are joined with one space each
C19_FoldedLinesJoined ==
    (FoldedCase /\ \A i \in DOMAIN CapturedBody : ~IsBlank(CapturedBody[i])) =>
        /\ Len(Paragraphs(CapturedBody, Min(CapturedIndents))) = 1
        /\ result.val = PyStr(Paragraphs(CapturedBody, Min(CapturedIndents))[1]
                              \o (IF call.indicator = <<">","-">> THEN <<>> ELSE <<"\n">>))

(***************************************************************************)
(* SpecStrip: _strip_comment applied to one value text of at most          *)
(* MaxStripLen characters, or to the text ["a"] # note.                    *)
(***************************************************************************)
MaxStripLen == 5

StripChars == {"a", "#", "'", "\"", " ", "[", "]"}

NoteText == <<"[","\"","a","\"","]"," ","#"," ","n","o","t","e">>

StripTexts == UNION {[1..n -> StripChars] : n \in 0..MaxStripLen} \cup {NoteText}

InitStrip ==
    /\ call \in {[fn |-> "_strip_comment", value |-> v] : v \in StripTexts}
    /\ result = Pending
    /\ ParserIdle

CallStripComment ==
    /\ call.fn = "_strip_comment"
    /\ result.err = "pending"
    /\ result' = Returned(PyStr(_strip_comment(call.value)))
    /\ UNCHANGED <<call, parserVars>>

NextStrip == CallStripComment

SpecStrip == InitStrip /\ [][NextStrip]_vars

StripCallDone == call.fn = "_strip_comment" /\ result.err # "pending"

\* position idx of value lies inside a quoted scalar: a quote of some kind
\* opened before it, outside any quoted scalar of the other kind, and has not
\* been closed
RECURSIVE QuoteAt(_, _, _, _)
QuoteAt(value, idx, from, open) ==
    IF from >= idx THEN open
    ELSE IF open = "" /\ value[from] \in {"'", "\""} THEN QuoteAt(value, idx, from + 1, value[from])
    ELSE IF open # "" /\ value[from] = open THEN QuoteAt(value, idx, from + 1, "")
    ELSE QuoteAt(value, idx, from + 1, open)

\* the positions of the "#" that are not inside a quoted scalar
CommentStarts(value) == {i \in DOMAIN value : value[i] = "#" /\ QuoteAt(value, i, 1, "") = ""}

\* the text without its comment and without the blanks before it
WithoutComment(value) ==
    IF CommentStarts(value) = {} THEN RStrip(value)
    ELSE RStrip(Slice(value, 1, Min(CommentStarts(value)) - 1))

\* C20: _strip_comment removes the text from the first "#" that is not inside
\* a quoted scalar to the end of the line: a "#" inside single or double quotes
\* is kept, a "#" that follows a closed quoted scalar is stripped.
C20_CommentOutsideQuotesStripped ==
    StripCallDone => result = Returned(PyStr(WithoutComment(call.value)))

\* ["a"] # note comes back whole: the double quote that closes "a" is not
\* taken as closing
C20_Witness ==
    /\ StripCallDone
    /\ call.value = NoteText
    /\ WithoutComment(call.value) = <<"[","\"","a","\"","]">>
    /\ result = Returned(PyStr(NoteText))

\* where no double quote comes before the first "#" outside quotes, the claim holds
C20_SingleQuotesOnly ==
    (StripCallDone /\ \A i \in DOMAIN call.value : call.value[i] # "\"") =>
        result = Returned(PyStr(WithoutComment(call.value)))

(***************************************************************************)
(* SpecShapes: safe_load and safe_load_all applied to one text of at most  *)
(* MaxShapeLines lines, each one of ShapeTemplates: quoted keys, block     *)
(* indicators in each value position, sequence-item mappings and keys      *)
(* with an empty value.                                                    *)
(***************************************************************************)
MaxShapeLines == 3

ShapeTemplates ==
    { <<"\"","a",":","b","\"",":"," ","1">>,
      <<"t",":"," ","|">>,
      <<"-"," ","|">>,
      <<"-"," ","t",":"," ","|">>,
      <<" "," ","t",":"," ","|">>,
      <<" "," ","b">>,
      <<" "," "," "," ","b">>,
      <<"-"," ","a",":">>,
      <<"-"," ","a",":"," ","1">>,
      <<" "," ","b",":"," ","2">>,
      <<" "," "," "," ","c",":"," ","3">>,
      <<"a",":">>,
      <<" ","b",":"," ","2">>,
      <<" ","-"," ","x">>,
      <<>> }

ShapeTexts == {JoinLines(ls) : ls \in UNION {[1..k -> ShapeTemplates] : k \in 0..MaxShapeLines}}

InitShapes ==
    /\ call \in {[fn |-> "safe_load"], [fn |-> "safe_load_all"]}
    /\ text \in ShapeTexts
    /\ result = Pending
    /\ documents = <<>>
    /\ docIndex = 0
    /\ yielded = <<>>
    /\ stack = <<>>
    /\ raised = "none"
    /\ pc = "start"

SpecShapes == InitShapes /\ [][Next]_vars

(***************************************************************************)
(* C21: the colon inside a quoted key                                      *)
(***************************************************************************)
\* the line "a:b": 1
QuotedKeyLine == <<"\"","a",":","b","\"",":"," ","1">>

\* the text holds the line "a:b": 1 and, besides it, blank lines only
QuotedKeyText == SelectSeq(SplitLines(text), LAMBDA l : l # <<>>) = <<QuotedKeyLine>>

\* C21: a mapping line is split at the first colon that is not inside a
\* quoted scalar, so the line "a:b": 1 loads as the mapping {'a:b': 1}.
C21_QuotedKeyColon ==
    (pc = "done" /\ call.fn = "safe_load" /\ QuotedKeyText)
        => result = Returned(PyDict(<<PyStr(<<"a",":","b">>)>>, <<PyInt(1)>>))

\* the line "a:b": 1 was loaded and the split at the colon inside the quotes
\* left the key text "a, which is refused as an unterminated quoted scalar
C21_Witness ==
    /\ pc = "done" /\ call.fn = "safe_load" /\ QuotedKeyText
    /\ result = Raise("YAMLError")
    /\ _parse_scalar(SplitOnce(QuotedKeyLine, ":")[1], TRUE) = Raise("YAMLError")

(***************************************************************************)
(* C22: inline flow collections whose brackets do not match                *)
(***************************************************************************)
RECURSIVE BracketsMatchFrom(_, _, _)
\* every bracket of s from position i on closes the innermost bracket that is
\* open, and none stays open; open holds the closers that are awaited
BracketsMatchFrom(s, i, open) ==
    IF i > Len(s) THEN open = <<>>
    ELSE IF s[i] = "[" THEN BracketsMatchFrom(s, i + 1, Append(open, "]"))
    ELSE IF s[i] = "{" THEN BracketsMatchFrom(s, i + 1, Append(open, "}"))
    ELSE IF s[i] \in {"]", "}"}
    THEN IF open # <<>> /\ open[Len(open)] = s[i]
         THEN BracketsMatchFrom(s, i + 1, Slice(open, 1, Len(open) - 1))
         ELSE FALSE
    ELSE BracketsMatchFrom(s, i + 1, open)

\* the value opens an inline flow collection and its brackets do not match
MismatchedFlow(value) ==
    /\ value # <<>>
    /\ value[1] \in {"[", "{"}
    /\ ~BracketsMatchFrom(value, 1, <<>>)

\* C22: a value that is an inline flow collection with mismatched brackets
\* makes parsing fail with YAMLError; it is never returned as a string or as
\* a collection that holds bracket fragments.
C22_MismatchedBracketsRaise ==
    (ScalarCallDone /\ MismatchedFlow(Strip(call.raw))) => result = Raise("YAMLError")

\* [a, [b] is returned as the list of the strings a and [b
C22_Witness ==
    /\ ScalarCallDone
    /\ call.raw = <<"[","a",","," ","[","b","]">>
    /\ MismatchedFlow(Strip(call.raw))
    /\ result = Returned(PyList(<<PyStr(<<"a">>), PyStr(<<"[","b">>)>>))

\* [a is returned as a string
C22_UnclosedIsString ==
    /\ ScalarCallDone
    /\ call.raw = <<"[","a">>
    /\ result = Returned(PyStr(<<"[","a">>))

(***************************************************************************)
(* C23: quoted keywords as elements of a flow sequence                     *)
(***************************************************************************)
KeywordSeqs == UNION {[1..n -> QuotedKeywords \cup {<<"a">>}] : n \in 1..MaxEntries}

\* the characters between the quotes of a quoted element, or the element
LiteralContent(v) == IF v \in QuotedKeywords THEN Slice(v, 2, Len(v) - 1) ELSE v

\* C23: a quoted scalar keeps its literal content as an element of an inline
\* flow collection: "true", "false" and "null" in quotes are the strings
\* true, false and null, never a Bool or Null and never other text.
C23_QuotedElementLiteral ==
    \A vs \in KeywordSeqs :
        (ScalarCallDone /\ call.raw = Bracket(vs))
            => result = Returned(PyList([i \in DOMAIN vs |-> PyStr(LiteralContent(vs[i]))]))

\* ["true"] is returned as the list of the string True
C23_Witness ==
    /\ ScalarCallDone
    /\ call.raw = <<"[","\"","t","r","u","e","\"","]">>
    /\ call.raw = Bracket(<< <<"\"","t","r","u","e","\"">> >>)
    /\ result = Returned(PyList(<<PyStr(<<"T","r","u","e">>)>>))
    /\ _literal_eval(call.raw) = Returned(PyList(<<PyStr(<<"T","r","u","e">>)>>))

(***************************************************************************)
(* C24: the block indicator in each value position                         *)
(***************************************************************************)
\* the string b followed by a newline: the body of a literal block whose
\* only line is b
BodyB == PyStr(<<"b","\n">>)

\* the four value positions of the indicator |, each followed by the body
\* line b, and the value each text stands for
BlockPositions ==
    { [at |-> "mapping key",
       text |-> JoinLines(<< <<"t",":"," ","|">>, <<" "," ","b">> >>),
       value |-> PyDict(<<PyStr(<<"t">>)>>, <<BodyB>>)],
      [at |-> "sequence item",
       text |-> JoinLines(<< <<"-"," ","|">>, <<" "," ","b">> >>),
       value |-> PyList(<<BodyB>>)],
      [at |-> "later key",
       text |-> JoinLines(<< <<"-"," ","a",":"," ","1">>, <<" "," ","t",":"," ","|">>,
                             <<" "," "," "," ","b">> >>),
       value |-> PyList(<<PyDict(<<PyStr(<<"a">>), PyStr(<<"t">>)>>, <<PyInt(1), BodyB>>)>>)],
      [at |-> "first key",
       text |-> JoinLines(<< <<"-"," ","t",":"," ","|">>, <<" "," "," "," ","b">> >>),
       value |-> PyList(<<PyDict(<<PyStr(<<"t">>)>>, <<BodyB>>)>>)] }

\* C24: a block indicator alone in any value position opens a block scalar:
\* after a mapping key, as a sequence item, as a later key of a sequence-item
\* mapping and as the value of the first key on a "- key: |" line, the
\* more-indented lines that follow are the body of the string.
C24_BlockInEveryPosition ==
    \A p \in BlockPositions :
        (pc = "done" /\ call.fn = "safe_load" /\ text = p.text) => result = Returned(p.value)

\* "- t: |" followed by the body line b was loaded: the indicator was read as
\* a plain scalar and the body line refused
C24_Witness ==
    /\ pc = "done" /\ call.fn = "safe_load"
    /\ \E p \in BlockPositions : p.at = "first key" /\ text = p.text
    /\ result = Raise("YAMLError")
    /\ _parse_scalar(<<"|">>, FALSE) = Returned(PyStr(<<"|">>))

\* in the three other positions the body is the value
C24_OtherPositions ==
    \A p \in BlockPositions :
        (pc = "done" /\ call.fn = "safe_load" /\ text = p.text /\ p.at # "first key")
            => result = Returned(p.value)

C24_LaterKeyReached ==
    /\ pc = "done" /\ call.fn = "safe_load"
    /\ \E p \in BlockPositions : p.at = "later key" /\ text = p.text /\ result = Returned(p.value)

(***************************************************************************)
(* C25: the entries of a sequence-item mapping                             *)
(***************************************************************************)
Key_a == PyStr(<<"a">>)
Key_b == PyStr(<<"b">>)
Key_c == PyStr(<<"c">>)

\* sequence items that open a mapping at indent 0, with the entry b: 2 at
\* indent 2 after them, and the value each text stands for
ItemMappings ==
    { [first |-> "scalar",
       text |-> JoinLines(<< <<"-"," ","a",":"," ","1">>, <<" "," ","b",":"," ","2">> >>),
       value |-> PyList(<<PyDict(<<Key_a, Key_b>>, <<PyInt(1), PyInt(2)>>)>>)],
      [first |-> "scalar, then an item",
       text |-> JoinLines(<< <<"-"," ","a",":"," ","1">>, <<" "," ","b",":"," ","2">>,
                             <<"-"," ","a",":"," ","1">> >>),
       value |-> PyList(<<PyDict(<<Key_a, Key_b>>, <<PyInt(1), PyInt(2)>>),
                          PyDict(<<Key_a>>, <<PyInt(1)>>)>>)],
      [first |-> "nested",
       text |-> JoinLines(<< <<"-"," ","a",":">>, <<" "," "," "," ","c",":"," ","3">>,
                             <<" "," ","b",":"," ","2">> >>),
       value |-> PyList(<<PyDict(<<Key_a, Key_b>>,
                                 <<PyDict(<<Key_c>>, <<PyInt(3)>>), PyInt(2)>>)>>)] }

\* C25: after a sequence item "- k: v", or "- k:" with a nested value, at
\* indent n, every "key: value" line at indent n+2 is an entry of the item's
\* own mapping, a sibling of k and no part of k's nested value, and the
\* mapping ends at the first non-blank line of indent n or less.
C25_SiblingsOfFirstKey ==
    \A m \in ItemMappings :
        (pc = "done" /\ call.fn = "safe_load" /\ text = m.text) => result = Returned(m.value)

\* "- a:", "    c: 3", "  b: 2" was loaded and b is an entry of a's value
C25_Witness ==
    /\ pc = "done" /\ call.fn = "safe_load"
    /\ \E m \in ItemMappings : m.first = "nested" /\ text = m.text
    /\ result = Returned(PyList(<<PyDict(<<Key_a>>,
                                         <<PyDict(<<Key_c, Key_b>>, <<PyInt(3), PyInt(2)>>)>>)>>))

\* when the first key has a scalar value the entries are siblings
C25_ScalarFirstKey ==
    \A m \in ItemMappings :
        (pc = "done" /\ call.fn = "safe_load" /\ text = m.text /\ m.first # "nested")
            => result = Returned(m.value)

(***************************************************************************)
(* C26: what a composition keyword reports                                 *)
(***************************************************************************)
\* the outcome of sub-schema i of the node's keyword, validated on its own
SubOutcome(i) ==
    _validate_schema(OrEmpty(call.schema), OrEmpty(call.node.items[1].items[i]), call.sub, NodePath, 1)

\* the sub-schemas that reject the instance
Failing == {i \in DOMAIN call.node.items[1].items : SubOutcome(i).err = "ValidationError"}

\* the aggregate condition of the node's keyword holds
AggregateHolds ==
    LET n == Len(call.node.items[1].items)
        passed == n - Cardinality(Failing)
    IN  CASE call.node.keys[1] = K_allOf -> passed = n
          [] call.node.keys[1] = K_anyOf -> passed >= 1
          [] call.node.keys[1] = K_oneOf -> passed = 1

\* the error `<path> failed <keyword>` at the path of the node
AggregateError ==
    ValidationError(Plain(_format_path(NodePath) \o <<" ","f","a","i","l","e","d"," ">> \o call.node.keys[1].s),
                    NodePath)

\* C26: a failure inside a sub-schema of allOf/anyOf/oneOf is never surfaced:
\* the only ValidationError of a composition keyword is the aggregate error
\* at the path of the node that holds the keyword, and when the aggregate
\* condition holds no error is raised although sub-schemas failed.
C26_OnlyAggregateSurfaced ==
    CompositionCase =>
        /\ result.err = "ValidationError" => result = AggregateError
        /\ AggregateHolds => result = Ok

\* a sub-schema failed at a deeper path and the aggregate error at the
\* node's path was raised
C26_Witness ==
    /\ CompositionCase
    /\ \E i \in Failing : Len(SubOutcome(i).path) > Len(NodePath)
    /\ result = AggregateError
    /\ result.path = NodePath

\* a sub-schema failed and nothing was raised
C26_SwallowedReached ==
    /\ CompositionCase
    /\ Failing # {}
    /\ AggregateHolds
    /\ result = Ok

(***************************************************************************)
(* C27: parsing terminates.  safe_load and safe_load_all run in one        *)
(* thread: while a step of the parser is possible the interpreter takes    *)
(* it, which is weak fairness of Next.  SpecFair runs the parser on texts  *)
(* of at most MaxFairLines lines of LineTemplates.                         *)
(***************************************************************************)
MaxFairLines == 2

FairTexts == {JoinLines(ls) : ls \in UNION {[1..k -> LineTemplates] : k \in 0..MaxFairLines}}

InitFair ==
    /\ call \in {[fn |-> "safe_load"], [fn |-> "safe_load_all"]}
    /\ text \in FairTexts
    /\ result = Pending
    /\ documents = <<>>
    /\ docIndex = 0
    /\ yielded = <<>>
    /\ stack = <<>>
    /\ raised = "none"
    /\ pc = "start"

SpecFair == InitFair /\ [][Next]_vars /\ WF_vars(Next)

\* a step of the scan of one document
ScanStep == pc = "parsing" /\ pc' = "parsing" /\ docIndex' = docIndex

\* the cursor of no running call moves backwards
CursorNeverBack ==
    \A k \in 1..Min({Len(stack), Len(stack')}) : stack'[k].index >= stack[k].index

\* a call starts at or after the cursor of its caller
CalleeStartsAhead ==
    Len(stack') > Len(stack) => stack'[Len(stack')].index >= stack[Len(stack)].index

\* a line handled by the running call itself, or by the call that returns to
\* it, leaves the cursor beyond that line
LineConsumed ==
    Len(stack') <= Len(stack) => stack'[Len(stack')].index > stack[Len(stack')].index

CursorAdvances == ScanStep => (CursorNeverBack /\ CalleeStartsAhead /\ LineConsumed)

\* what is left to do at the cursor of the running call: a call that was
\* just made there must handle the line, a call that has handled it may
\* still return to each of its callers
AtCursor(stk) ==
    LET top == stk[Len(stk)]
        caller == stk[Len(stk) - 1]
    IN  IF top.wait = "begin" THEN 0
        ELSE IF top.fn = "struct" /\ top.coll = PyNone /\ caller.wait = "nested" /\ top.index = caller.index
        THEN 1
        ELSE 2 + Len(stk)

\* the number of steps that safe_load or safe_load_all can still take at
\* most: a variant of Next.  n bounds the lines of a document, n + 1 the
\* documents, perLine the steps at one cursor and perDocument those of one
\* document.
StepsLeft(p, txt, docs, d, stk) ==
    LET n == Len(SplitLines(txt))
        perLine == 2 * n + 6
        perDocument == (n + 1) * perLine + 2
    IN  CASE p = "start" -> (n + 2) * perDocument + 3
          [] p = "split" -> (n + 2) * perDocument + 2
          [] p = "document" -> (n + 2 - d) * perDocument + 1
          [] p = "parsing" ->
                (n + 1 - d) * perDocument + 2
                    + (Len(docs[d]) - stk[Len(stk)].index) * perLine + AtCursor(stk)
          [] p = "except" -> 1
          [] p = "done" -> 0

Variant == StepsLeft(pc, text, documents, docIndex, stack)

VariantDecreases ==
    /\ Variant \in Nat
    /\ Variant' \in Nat
    /\ Variant' < Variant

\* C27: parsing always terminates: the line cursor never moves backwards,
\* every line that a scan handles leaves the cursor beyond it, and every
\* step of safe_load and safe_load_all lowers a natural number, so they end
\* for every text.
C27_ParsingTerminates == [][CursorAdvances /\ VariantDecreases]_vars

\* a text with a nested call and a block scalar was parsed to its end, and
\* no step is left
C27_Witness ==
    /\ pc = "done"
    /\ result.err = "none"
    /\ Variant = 0
    /\ Len(SplitLines(text)) = MaxFairLines
    /\ \E i \in DOMAIN SplitLines(text) : LineStripped(SplitLines(text)[i]) = <<"a",":">>
    /\ \E i \in DOMAIN SplitLines(text) : LineStripped(SplitLines(text)[i]) = <<"t",":"," ","|">>

(***************************************************************************)
(* C28: the index that the top-level scan returns                          *)
(***************************************************************************)
\* the running call is the _parse_structure(lines, 0, 0) of _parse_document
TopLevelScan == pc = "parsing" /\ Len(stack) = 2 /\ Running("struct") /\ stack[1].wait = "document"

\* the top-level scan leaves its loop and returns
TopLevelReturns ==
    /\ TopLevelScan
    /\ IF AtLine THEN ~IsBlankOrComment(Line) /\ LineIndent(Line) < Top(stack).indent ELSE TRUE

\* the document was parsed: its value is yielded
DocumentParsed == pc' = "document" /\ docIndex' = docIndex + 1 /\ Len(yielded') = Len(yielded) + 1

TopLevelConsumesAll ==
    TopLevelReturns =>
        /\ Top(stack).index = Len(Lines)
        /\ ~TrailingContent(Lines, Top(stack).index)
        /\ raised' = "none"
        /\ DocumentParsed

\* C28: when the top-level call _parse_structure(lines, 0, 0) returns without
\* error, the index it returns is the number of lines of the document, so
\* the trailing-content check of _parse_document never raises and every
\* line of a parsed document was consumed by the scan.
C28_TopLevelConsumesAll == [][TopLevelConsumesAll]_vars

\* a document of MaxLines lines was parsed, a nested mapping among them
C28_Witness ==
    /\ pc = "document"
    /\ docIndex = 2
    /\ Len(documents[1]) = MaxLines
    /\ Len(yielded) = 1
    /\ yielded[1].t = "dict"
    /\ \E i \in DOMAIN yielded[1].items : yielded[1].items[i].t \in {"dict", "list"}

(***************************************************************************)
(* C29: a line one space deeper than a key with an empty value             *)
(***************************************************************************)
\* the lines of the text that are not empty
NonBlankLines == SelectSeq(SplitLines(text), LAMBDA l : l # <<>>)

\* the key a with an empty value at indent 0
EmptyKeyLine == <<"a",":">>

\* lines at indent 1: a mapping entry and a sequence item
EntryOneDeeper == <<" ","b",":"," ","2">>
ItemOneDeeper == <<" ","-"," ","x">>

\* the mapping in which a is Null and b, from the line one space deeper, is
\* the next entry
NullThenSibling == PyDict(<<Key_a, Key_b>>, <<PyNone, PyInt(2)>>)

\* C29 as stated: whatever the line one space deeper than a key with an
\* empty value is, the key's value is Null, the line is an entry of the
\* enclosing collection and no YAMLError is raised.
C29_OneDeeperNeverRaises ==
    \A l \in {EntryOneDeeper, ItemOneDeeper} :
        (pc = "done" /\ call.fn = "safe_load" /\ NonBlankLines = <<EmptyKeyLine, l>>)
            => (result.err = "none" /\ DictGet(result.val, Key_a) = PyNone)

\* C29: a key with an empty value in a block mapping takes only lines at
\* least 2 spaces deeper as its nested value; a "key: value" line exactly 1
\* space deeper leaves the key's value Null and is the next entry of the
\* mapping that holds the key, and no YAMLError is raised.
C29_EntryOneDeeperIsSibling ==
    (pc = "done" /\ call.fn = "safe_load" /\ NonBlankLines = <<EmptyKeyLine, EntryOneDeeper>>)
        => result = Returned(NullThenSibling)

\* "a:", a blank line and " b: 2" were loaded as {'a': None, 'b': 2}
C29_Witness ==
    /\ pc = "done" /\ call.fn = "safe_load"
    /\ NonBlankLines = <<EmptyKeyLine, EntryOneDeeper>>
    /\ Len(SplitLines(text)) = MaxShapeLines
    /\ LineIndent(EntryOneDeeper) = LineIndent(EmptyKeyLine) + 1
    /\ result = Returned(NullThenSibling)

\* "a:" and " - x" were loaded: the item is handed to the scan of the
\* mapping, which refuses it
C29_ItemOneDeeperRaises ==
    /\ pc = "done" /\ call.fn = "safe_load"
    /\ NonBlankLines = <<EmptyKeyLine, ItemOneDeeper>>
    /\ result = Raise("YAMLError")

(***************************************************************************)
(* C30: Bool instances and the numeric keywords                            *)
(***************************************************************************)
\* validate was called with a Bool instance at the node
BoolCase == ValidateDone /\ call.sub \in {PyTrue, PyFalse}

\* the instance, read as the number it equals, is refused by the limit
RefusedAsNumber(kv, b) ==
    LET x == IF b = PyTrue THEN 1 ELSE 0
    IN  CASE kv[1] = K_minimum -> x < kv[2].n
          [] kv[1] = K_exclusiveMinimum -> x <= kv[2].n
          [] kv[1] = K_maximum -> x > kv[2].n
          [] kv[1] = K_exclusiveMaximum -> x >= kv[2].n

\* C30: a Bool instance is accepted by `type: number` although it is
\* rejected by `type: integer`, and minimum, maximum, exclusiveMinimum and
\* exclusiveMaximum are skipped for it: {type: number, minimum: 5} accepts
\* true and false.
C30_BoolIsNumberWithoutRange ==
    BoolCase =>
        /\ call.node = Node(<< <<K_type, T_number>> >>) => result = Ok
        /\ call.node = Node(<< <<K_type, T_integer>> >>)
                => (result.err = "ValidationError" /\ result.path = NodePath)
        /\ \A kv \in RangeLimits :
                call.node = Node(<< <<K_type, T_number>>, kv >>) => result = Ok

\* {type: number, minimum: 5} accepted true, which as a number is below 5
C30_Witness ==
    /\ BoolCase
    /\ call.sub = PyTrue
    /\ call.node = Node(<< <<K_type, T_number>>, <<K_minimum, PyInt(5)>> >>)
    /\ RefusedAsNumber(<<K_minimum, PyInt(5)>>, call.sub)
    /\ result = Ok

\* every limit of RangeLimits refuses 0 and 1, and it refuses the Int 1
C30_LimitsRefuseNumbers ==
    /\ \A kv \in RangeLimits : RefusedAsNumber(kv, PyTrue) /\ RefusedAsNumber(kv, PyFalse)
    /\ (ValidateDone /\ call.sub = PyInt(1) /\ call.node \in RangeNodes)
            => result.err = "ValidationError"

\* {type: integer} refused false
C30_IntegerRefusesBool ==
    /\ BoolCase
    /\ call.sub = PyFalse
    /\ call.node = Node(<< <<K_type, T_integer>> >>)
    /\ result.err = "ValidationError"

====
